---- MODULE Spec2Model ----
(***************************************************************************)
(* Model of the ZenML pipeline compiler (src/zenml/config/compiler.py).    *)
(*                                                                         *)
(* A caller holds a pipeline object, a stack and a run configuration and   *)
(* calls Compiler.compile or Compiler.compile_spec.  Each call is modelled *)
(* as a sequence of steps, one per method that compile() invokes.          *)
(* Objects are kept in a heap so that what copy.deepcopy buys is visible.  *)
(***************************************************************************)
EXTENDS Integers, Sequences, FiniteSets, TLC

VARIABLES
    heap,               \* pipeline objects by reference: "orig" is the caller's
    given,              \* the caller's pipeline as it was constructed (history)
    stack,              \* the stack passed to compile
    run_configuration,  \* the PipelineRunConfiguration passed to compile
    op,                 \* the running operation: "none", "compile", "compile_spec"
    pc,                 \* the position inside the running operation
    pipeline,           \* compile's local variable `pipeline`: a reference
    pipeline_settings,  \* compile's local `pipeline_settings`
    layers,             \* the layers topsorted_layers returned to the last sort
    sorted_invocations, \* compile's sorted invocation names
    steps,              \* compile's local `steps`, in insertion order
    outcome,            \* what the running call returned or raised
    history,            \* the outcomes of the finished calls
    other,              \* a second call, running at the same time: its locals
    session_cache,      \* GCPServiceConnector._session_cache, by the object holding it
    now,                \* datetime.datetime.now(datetime.timezone.utc)
    authenticated,      \* per connector, the number of its _authenticate calls
    result,             \* what the last get_session call returned or raised
    secrets,            \* the secrets that exist: their values by name
    cli                 \* the result of the last `zenml secret` command

vars == <<heap, given, stack, run_configuration, op, pc, pipeline,
          pipeline_settings, layers, sorted_invocations, steps, outcome,
          history, other, session_cache, now, authenticated, result, secrets,
          cli>>

(***************************************************************************)
(* Bounds and universes                                                    *)
(***************************************************************************)
MaxCalls == 3

StepNames == {"A", "B", "C"}
InsertionOrder == <<"A", "B", "C">>

None == "None"
Flags == {"None", "True", "False"}
FlagAttributes ==
    {"enable_cache", "enable_artifact_metadata", "enable_artifact_visualization"}
MappingAttributes == {"settings", "extra"}

PIPELINE == "PIPELINE"
STEP == "STEP"

(***************************************************************************)
(* Sequences and mappings                                                  *)
(***************************************************************************)
Range(s) == {s[i] : i \in DOMAIN s}

EmptyMap == [k \in {} |-> None]

RECURSIVE Flatten(_)
Flatten(ls) == IF ls = <<>> THEN <<>> ELSE Head(ls) \o Flatten(Tail(ls))

RECURSIVE SumLen(_)
SumLen(ls) == IF ls = <<>> THEN 0 ELSE Len(Head(ls)) + SumLen(Tail(ls))

\* dict.update: the right operand wins key by key
Update(a, b) ==
    [k \in DOMAIN a \cup DOMAIN b |-> IF k \in DOMAIN b THEN b[k] ELSE a[k]]

\* recursive update of a mapping of settings objects: fields are merged
RecursiveUpdate(a, b) ==
    [k \in DOMAIN a \cup DOMAIN b |->
        IF k \in DOMAIN a /\ k \in DOMAIN b THEN Update(a[k], b[k])
        ELSE IF k \in DOMAIN b THEN b[k] ELSE a[k]]

Restrict(f, S) == [k \in DOMAIN f \cap S |-> f[k]]

(***************************************************************************)
(* The invocation graph: _verify_upstream_steps, _get_sorted_invocations   *)
(***************************************************************************)
available_steps(p) == Range(p.invocations)

UpstreamUnchecked(p, name) == {}

\* _verify_upstream_steps: invocation.upstream_steps - available_steps
invalid_upstream_steps(p, name) == p.upstream_steps[name] \ available_steps(p)

\* the invocations whose check raises, in iteration order
InvalidInvocations(p) ==
    SelectSeq(p.invocations, LAMBDA n : invalid_upstream_steps(p, n) # {})

DagDropSelf(p) ==
    [name \in available_steps(p) |-> p.upstream_steps[name] \ {name}]

DagNoEdges(p) == [name \in available_steps(p) |-> {}]

\* dag[name] = list(step.upstream_steps)
Dag(p) == [name \in available_steps(p) |-> p.upstream_steps[name]]

reverse_dag(dag) == [n \in DOMAIN dag |-> {m \in DOMAIN dag : n \in dag[m]}]

RECURSIVE LayerLoop(_, _, _, _, _)
LayerLoop(nodes, parents, children, layer, visited) ==
    IF layer = <<>> THEN <<>>
    ELSE LET seen == visited \cup Range(layer)
             next == SelectSeq(nodes, LAMBDA n :
                        /\ \E m \in Range(layer) : n \in children[m]
                        /\ parents[n] \subseteq seen)
         IN  <<layer>> \o LayerLoop(nodes, parents, children, next, seen)

\* layers of mutually independent nodes; residual nodes mean a cycle
topsorted_layers(nodes, parents, children) ==
    LET first == SelectSeq(nodes, LAMBDA n : parents[n] = {})
        ls    == LayerLoop(nodes, parents, children, first, {})
    IN  IF SumLen(ls) < Len(nodes)
        THEN [ok |-> FALSE, layers |-> <<>>]
        ELSE [ok |-> TRUE, layers |-> ls]

SortSwapped(p) ==
    topsorted_layers(p.invocations, reverse_dag(Dag(p)), Dag(p))

SortByCall(p) ==
    IF Len(history) % 2 = 1
    THEN topsorted_layers(p.invocations, reverse_dag(Dag(p)), Dag(p))
    ELSE topsorted_layers(p.invocations, Dag(p), reverse_dag(Dag(p)))

\* the call of topsorted_layers made by _get_sorted_invocations
Sort(p) ==
    topsorted_layers(p.invocations, Dag(p), reverse_dag(Dag(p)))

\* _get_sorted_invocations: the error it raises, or the layers and the order
_get_sorted_invocations(p) ==
    IF InvalidInvocations(p) # <<>>
    THEN [error |-> "RuntimeError", reason |-> "invalid upstream steps",
          names |-> invalid_upstream_steps(p, Head(InvalidInvocations(p))),
          layers |-> <<>>, sorted |-> <<>>]
    ELSE IF ~Sort(p).ok
    THEN [error |-> "RuntimeError", reason |-> "cycle", names |-> {},
          layers |-> <<>>, sorted |-> <<>>]
    ELSE [error |-> None, reason |-> None, names |-> {},
          layers |-> Sort(p).layers, sorted |-> Flatten(Sort(p).layers)]

(***************************************************************************)
(* Settings classes, stack components and key resolution                   *)
(***************************************************************************)
KfKey == <<"orchestrator", "kf">>
AirflowKey == <<"orchestrator", "airflow">>
DockerKey == <<"docker">>
ResourcesKey == <<"resources">>

GeneralKeys == {DockerKey, ResourcesKey}

\* the LEVEL attribute of a settings class
LEVEL(cls) ==
    CASE cls = "DockerSettings"   -> {PIPELINE}
      [] cls = "ResourceSettings" -> {STEP}
      [] cls = "StepOnlySettings" -> {STEP}
      [] cls = "AirflowSettings"  -> {STEP}
      [] OTHER                    -> {PIPELINE, STEP}

\* settings_class.__fields__
ClassFields(cls) == {"f", "g"}

\* a config attribute left at the value the class declares as its default
ClassDefault == "class-default"

\* settings_utils.get_stack_component_setting_key: "<type>.<flavor>"
get_stack_component_setting_key(component) ==
    <<component.type, component.flavor>>

ComponentsWithSettings(s) ==
    {i \in DOMAIN s.components : s.components[i].settings_class # None}

\* SettingsResolver.resolve: the class the key resolves to, None for KeyError
ResolvedClass(key, s) ==
    IF key = DockerKey THEN "DockerSettings"
    ELSE IF key = ResourcesKey THEN "ResourceSettings"
    ELSE IF \E i \in ComponentsWithSettings(s) :
                get_stack_component_setting_key(s.components[i]) = key
    THEN LET i == CHOOSE i \in ComponentsWithSettings(s) :
                get_stack_component_setting_key(s.components[i]) = key
         IN  s.components[i].settings_class
    ELSE None

\* stack.step_operator / stack.experiment_tracker: the component or none
ComponentsOfType(s, type) ==
    {s.components[i].name : i \in {j \in DOMAIN s.components :
                                        s.components[j].type = type}}

(***************************************************************************)
(* configure / _apply_configuration and pydantic_utils.update_model        *)
(***************************************************************************)
\* dict_utils.remove_none_values on the keyword arguments of configure
remove_none_values(values) ==
    Restrict(values, {a \in DOMAIN values :
                        a \in MappingAttributes \/ values[a] # None})

\* update_model(original, update, recursive): the attributes the update sets
\* overwrite the original's; with recursive, mappings are merged instead
update_model(original, update, recursive) ==
    [a \in DOMAIN original |->
        IF a \notin DOMAIN update THEN original[a]
        ELSE IF recursive /\ a = "settings"
            THEN RecursiveUpdate(original[a], update[a])
        ELSE IF recursive /\ a = "extra" THEN Update(original[a], update[a])
        ELSE update[a]]

\* configure(**values, merge=merge) on a pipeline or step configuration
configure(configuration, values, merge) ==
    update_model(configuration, remove_none_values(values), merge)

\* the value `merge` takes in a call of configure that does not pass it
DefaultMerge == FALSE

(***************************************************************************)
(* The methods of Compiler, as functions of the objects they read          *)
(***************************************************************************)
\* the order in which a mapping keyed by step names is iterated
KeysInOrder(m) == SelectSeq(InsertionOrder, LAMBDA n : n \in DOMAIN m)

\* step._apply_configuration(step_config): no `merge` is passed
_apply_configuration(configuration, step_config) ==
    update_model(configuration, step_config, DefaultMerge)

ApplyToPipelineCombining(p, config) ==
    [p EXCEPT !.configuration = configure(@,
        [enable_cache |-> config.enable_cache,
         enable_artifact_metadata |-> config.enable_artifact_metadata,
         enable_artifact_visualization |->
             config.enable_artifact_visualization,
         settings |-> config.settings,
         extra |-> config.extra], TRUE)]

\* _apply_run_configuration, the call pipeline.configure(...)
ApplyToPipeline(p, config) ==
    [p EXCEPT !.configuration = configure(@,
        [enable_cache |-> config.enable_cache,
         enable_artifact_metadata |-> config.enable_artifact_metadata,
         enable_artifact_visualization |->
             config.enable_artifact_visualization,
         settings |-> config.settings,
         extra |-> config.extra], DefaultMerge)]

RECURSIVE ApplyToKnownSteps(_, _, _)
ApplyToKnownSteps(p, config, names) ==
    IF names = <<>> THEN [error |-> None, name |-> None, p |-> p]
    ELSE IF Head(names) \notin available_steps(p)
    THEN ApplyToKnownSteps(p, config, Tail(names))
    ELSE ApplyToKnownSteps(
            [p EXCEPT !.step_configuration[Head(names)] =
                update_model(@, config.steps[Head(names)], DefaultMerge)],
            config, Tail(names))

\* _apply_run_configuration, the loop over config.steps.items()
RECURSIVE ApplyToSteps(_, _, _)
ApplyToSteps(p, config, names) ==
    IF names = <<>> THEN [error |-> None, name |-> None, p |-> p]
    ELSE IF Head(names) \notin available_steps(p)
    THEN [error |-> "KeyError", name |-> Head(names), p |-> p]
    ELSE ApplyToSteps(
            [p EXCEPT !.step_configuration[Head(names)] =
                _apply_configuration(@, config.steps[Head(names)])],
            config, Tail(names))

OverrideFlagIfStepUnset(p, config, attr) ==
    [p EXCEPT !.step_configuration =
        [n \in DOMAIN @ |->
            IF config[attr] = None \/ @[n][attr] # None THEN @[n]
            ELSE configure(@[n], [a \in {attr} |-> config[attr]],
                           DefaultMerge)]]

\* _apply_run_configuration, one of the three `if ... is not None` loops
OverrideFlag(p, config, attr) ==
    IF config[attr] = None THEN p
    ELSE [p EXCEPT !.step_configuration =
            [n \in DOMAIN @ |->
                configure(@[n], [a \in {attr} |-> config[attr]],
                          DefaultMerge)]]

_apply_run_configuration(p, config) ==
    LET p1 == ApplyToPipeline(p, config)
        r  == ApplyToSteps(p1, config, KeysInOrder(config.steps))
    IN  IF r.error # None THEN r
        ELSE [r EXCEPT !.p =
                OverrideFlag(
                    OverrideFlag(
                        OverrideFlag(r.p, config, "enable_cache"),
                        config, "enable_artifact_metadata"),
                    config, "enable_artifact_visualization")]

\* _get_default_settings: the component's config, restricted to the fields
\* of the settings class, without the fields left at their default
_get_default_settings(component) ==
    Restrict(component.config,
             {k \in DOMAIN component.config :
                /\ k \in ClassFields(component.settings_class)
                /\ component.config[k] # ClassDefault})

\* pydantic_utils.update_model on two settings objects
update_settings(original, update) == Update(original, update)

DefaultsOverPipeline(pipeline_settings_, settings_key, default_settings) ==
    IF settings_key \in DOMAIN pipeline_settings_
    THEN [pipeline_settings_ EXCEPT ![settings_key] =
            update_settings(@, default_settings)]
    ELSE Update(pipeline_settings_,
                [k \in {settings_key} |-> default_settings])

\* _apply_stack_default_settings, the body of the loop for one component
ApplyComponentDefault(pipeline_settings_, settings_key, default_settings) ==
    IF settings_key \in DOMAIN pipeline_settings_
    THEN [pipeline_settings_ EXCEPT ![settings_key] =
            update_settings(default_settings, @)]
    ELSE Update(pipeline_settings_,
                [k \in {settings_key} |-> default_settings])

RECURSIVE ApplyDefaultsFrom(_, _, _)
ApplyDefaultsFrom(pipeline_settings_, s, i) ==
    IF i > Len(s.components) THEN pipeline_settings_
    ELSE IF s.components[i].settings_class = None
    THEN ApplyDefaultsFrom(pipeline_settings_, s, i + 1)
    ELSE ApplyDefaultsFrom(
            ApplyComponentDefault(pipeline_settings_,
                get_stack_component_setting_key(s.components[i]),
                _get_default_settings(s.components[i])),
            s, i + 1)

StackDefaultsNotSaved(p, s) == p

_apply_stack_default_settings(p, s) ==
    [p EXCEPT !.configuration = configure(@,
        [settings |-> ApplyDefaultsFrom(@.settings, s, 1)], FALSE)]

FilterKeepingUnresolved(settings, configuration_level, s) ==
    LET bad == {k \in DOMAIN settings :
                    /\ ResolvedClass(k, s) # None
                    /\ configuration_level \notin LEVEL(ResolvedClass(k, s))}
    IN  IF bad # {}
        THEN [error |-> "TypeError", keys |-> bad, settings |-> EmptyMap]
        ELSE [error |-> None, keys |-> {}, settings |-> settings]

FilterWithoutLevelCheck(settings, configuration_level, s) ==
    [error |-> None, keys |-> {},
     settings |-> Restrict(settings,
                    {k \in DOMAIN settings : ResolvedClass(k, s) # None})]

\* the class of the settings object that is stored under a key before the
\* key is resolved
InstanceClass(key, s) ==
    IF key = AirflowKey THEN "AirflowSettings"
    ELSE IF ResolvedClass(key, s) # None THEN ResolvedClass(key, s)
    ELSE "BaseSettings"

FilterLevelFirst(settings, configuration_level, s) ==
    LET resolved == {k \in DOMAIN settings : ResolvedClass(k, s) # None}
        bad == {k \in DOMAIN settings :
                    configuration_level \notin LEVEL(InstanceClass(k, s))}
    IN  IF bad # {}
        THEN [error |-> "TypeError", keys |-> bad, settings |-> EmptyMap]
        ELSE [error |-> None, keys |-> {},
              settings |-> Restrict(settings, resolved)]

\* _filter_and_validate_settings
_filter_and_validate_settings(settings, configuration_level, s) ==
    LET resolved == {k \in DOMAIN settings : ResolvedClass(k, s) # None}
        bad == {k \in resolved :
                    configuration_level \notin LEVEL(ResolvedClass(k, s))}
    IN  IF bad # {}
        THEN [error |-> "TypeError", keys |-> bad, settings |-> EmptyMap]
        ELSE [error |-> None, keys |-> {},
              settings |-> Restrict(settings, resolved)]

\* settings_to_passdown
settings_to_passdown(pipeline_settings_, s) ==
    Restrict(pipeline_settings_,
             {k \in DOMAIN pipeline_settings_ :
                STEP \in LEVEL(ResolvedClass(k, s))})

\* the upstream steps listed in the order of their declaration, last first
declared(S) == SelectSeq(<<"C", "B", "A">>, LAMBDA n : n \in S)

\* sorted(invocation.upstream_steps)
SortedNames == <<"A", "B", "C">>
sorted(S) == SelectSeq(SortedNames, LAMBDA n : n \in S)

\* InputSpec(step_name=artifact.invocation_id, output_name=...)
InputSpec(artifact) ==
    [step_name |-> artifact.invocation_id,
     output_name |-> artifact.output_name]

\* _get_step_spec
_get_step_spec(p, name) ==
    [source |-> p.step_source[name],
     upstream_steps |-> sorted(p.upstream_steps[name]),
     inputs |-> [key \in DOMAIN p.input_artifacts[name] |->
                    InputSpec(p.input_artifacts[name][key])],
     pipeline_parameter_name |-> name]

StepWinsNothing(configuration, passdown, pipeline_configuration, step_settings) ==
    configure(configuration,
        [settings |-> passdown,
         extra |-> pipeline_configuration.extra,
         failure_hook_source |-> pipeline_configuration.failure_hook_source,
         success_hook_source |-> pipeline_configuration.success_hook_source],
        FALSE)

\* _compile_step_invocation, the two calls of step.configure
MergeStepConfiguration(configuration, passdown, pipeline_configuration, step_settings) ==
    configure(
        configure(configuration,
            [settings |-> passdown,
             extra |-> pipeline_configuration.extra,
             failure_hook_source |->
                 pipeline_configuration.failure_hook_source,
             success_hook_source |->
                 pipeline_configuration.success_hook_source],
            FALSE),
        [settings |-> step_settings,
         extra |-> configuration.extra,
         failure_hook_source |-> configuration.failure_hook_source,
         success_hook_source |-> configuration.success_hook_source],
        TRUE)

\* _compile_step_invocation: works on a deep copy of the invocation
_compile_step_invocation(p, name, passdown, s) ==
    LET configuration == p.step_configuration[name]
        filtered == _filter_and_validate_settings(configuration.settings,
                                                  STEP, s)
    IN  IF filtered.error # None
        THEN [error |-> filtered.error, name |-> name,
              spec |-> _get_step_spec(p, name), config |-> configuration]
        ELSE [error |-> None, name |-> name,
              spec |-> _get_step_spec(p, name),
              config |-> MergeStepConfiguration(configuration, passdown,
                            p.configuration, filtered.settings)]

\* the dict comprehension of compile: the steps compiled so far, and the
\* error of the first step that fails
RECURSIVE CompileStepsThatPass(_, _, _, _)
CompileStepsThatPass(p, names, passdown, s) ==
    IF names = <<>> THEN [error |-> None, steps |-> <<>>]
    ELSE LET one == _compile_step_invocation(p, Head(names), passdown, s)
             rest == CompileStepsThatPass(p, Tail(names), passdown, s)
         IN  [error |-> None,
              steps |-> IF one.error # None THEN rest.steps
                        ELSE <<one>> \o rest.steps]

RECURSIVE CompileSteps(_, _, _, _)
CompileSteps(p, names, passdown, s) ==
    IF names = <<>> THEN [error |-> None, steps |-> <<>>]
    ELSE LET one == _compile_step_invocation(p, Head(names), passdown, s)
         IN  IF one.error # None
             THEN [error |-> one.error, steps |-> <<>>]
             ELSE LET rest == CompileSteps(p, Tail(names), passdown, s)
                  IN  [error |-> rest.error,
                       steps |-> IF rest.error # None THEN <<>>
                                 ELSE <<one>> \o rest.steps]

MissingOperatorOnly(s, step) ==
    IF /\ step.config.step_operator # None
       /\ step.config.step_operator \notin ComponentsOfType(s, "step_operator")
    THEN "step_operator"
    ELSE None

\* _ensure_required_stack_components_exist: the first step that fails
MissingComponent(s, step) ==
    IF /\ step.config.step_operator # None
       /\ step.config.step_operator \notin ComponentsOfType(s, "step_operator")
    THEN "step_operator"
    ELSE IF /\ step.config.experiment_tracker # None
            /\ step.config.experiment_tracker
                   \notin ComponentsOfType(s, "experiment_tracker")
    THEN "experiment_tracker"
    ELSE None

_ensure_required_stack_components_exist(s, steps_) ==
    LET failing == SelectSeq(steps_, LAMBDA st : MissingComponent(s, st) # None)
    IN  IF failing = <<>> THEN [error |-> None, name |-> None, kind |-> None]
        ELSE [error |-> "StackValidationError", name |-> Head(failing).name,
              kind |-> MissingComponent(s, Head(failing))]

\* string.Formatter().parse(run_name): the field names that are not empty
Placeholders(run_name) ==
    {run_name[i].field : i \in {j \in DOMAIN run_name : run_name[j].field # ""}}

valid_placeholder_names == {"date", "time"}

VerifySomePlaceholder(run_name) ==
    IF \/ Placeholders(run_name) = {}
       \/ Placeholders(run_name) \cap valid_placeholder_names # {}
    THEN None
    ELSE "ValueError"

_verify_run_name(run_name) ==
    IF Placeholders(run_name) \subseteq valid_placeholder_names THEN None
    ELSE "ValueError"

_get_default_run_name(pipeline_name) ==
    <<[literal |-> pipeline_name, field |-> ""],
      [literal |-> "-", field |-> "date"],
      [literal |-> "-", field |-> "time"]>>

ComputeSpecWithSource(p, step_specs) ==
    [steps |-> step_specs, version |-> "default",
     source |-> p.source, parameters |-> p.parameters]

\* _compute_pipeline_spec
_compute_pipeline_spec(p, step_specs) ==
    IF p.is_base_pipeline
    THEN [steps |-> step_specs, version |-> "0.3", source |-> None,
          parameters |-> EmptyMap]
    ELSE [steps |-> step_specs, version |-> "default",
          source |-> p.source, parameters |-> p.parameters]

StepSpecs(p, names) == [i \in DOMAIN names |-> _get_step_spec(p, names[i])]

(***************************************************************************)
(* The inputs a caller may pass                                            *)
(***************************************************************************)
DefaultPipelineConfiguration ==
    [settings |-> EmptyMap, extra |-> EmptyMap,
     failure_hook_source |-> None, success_hook_source |-> None,
     enable_cache |-> None, enable_artifact_metadata |-> None,
     enable_artifact_visualization |-> None]

DefaultStepConfiguration ==
    [settings |-> EmptyMap, extra |-> EmptyMap,
     failure_hook_source |-> None, success_hook_source |-> None,
     enable_cache |-> None, enable_artifact_metadata |-> None,
     enable_artifact_visualization |-> None,
     step_operator |-> None, experiment_tracker |-> None]

DefaultRunConfiguration ==
    [run_name |-> <<>>, enable_cache |-> None,
     enable_artifact_metadata |-> None,
     enable_artifact_visualization |-> None,
     settings |-> EmptyMap, extra |-> EmptyMap, steps |-> EmptyMap]

Orchestrator(settings_class, config) ==
    [type |-> "orchestrator", flavor |-> "kf", name |-> "kf",
     settings_class |-> settings_class, config |-> config]

StackOf(components) == [name |-> "stack", components |-> components]

DefaultStack == StackOf(<<Orchestrator(None, EmptyMap)>>)

\* a pipeline whose steps and configuration are the given ones
PipelineOf(invocations, upstream_steps, step_configuration, configuration) ==
    [name |-> "pipeline",
     invocations |-> invocations,
     upstream_steps |-> upstream_steps,
     step_configuration |-> step_configuration,
     step_source |-> [n \in Range(invocations) |-> <<"step", n>>],
     input_artifacts |-> [n \in Range(invocations) |-> EmptyMap],
     configuration |-> configuration,
     is_base_pipeline |-> FALSE,
     source |-> "pipeline_source",
     parameters |-> EmptyMap]

InvocationOrders ==
    {<<"A">>, <<"A", "B">>, <<"B", "A">>, <<"A", "B", "C">>, <<"C", "A", "B">>}

\* every graph over the invocation orders, upstream names unchecked
GraphPipelines ==
    UNION {{PipelineOf(inv, up,
                [n \in Range(inv) |-> DefaultStepConfiguration],
                DefaultPipelineConfiguration)
            : up \in [Range(inv) -> SUBSET StepNames]}
           : inv \in InvocationOrders}

\* the pipeline A -> B with the given configurations of the pipeline and A
ChainPipeline(configuration, a_configuration) ==
    PipelineOf(<<"A", "B">>, [n \in {"A", "B"} |->
                                IF n = "B" THEN {"A"} ELSE {}],
        [n \in {"A", "B"} |->
            IF n = "A" THEN a_configuration ELSE DefaultStepConfiguration],
        configuration)

One(key, object) == [k \in {key} |-> object]
Obj(fields, v) == [k \in fields |-> v]
ObjectsOf(v) == {Obj({"f"}, v), Obj({"g"}, v), Obj({"f", "g"}, v)}

SettingsStacks ==
    {DefaultStack}
    \cup {StackOf(<<Orchestrator("KfSettings", c)>>) :
            c \in {EmptyMap, Obj({"f"}, "d"), Obj({"f", "g"}, "d"),
                   [f |-> "d", g |-> ClassDefault, h |-> "d"]}}

AuthoredPipelineSettings ==
    {EmptyMap} \cup {One(KfKey, o) : o \in ObjectsOf("p")}

RunSettings ==
    {EmptyMap, One(KfKey, Obj({"f"}, "r")), One(KfKey, Obj({"g"}, "r")),
     One(DockerKey, Obj({"f"}, "r")), One(AirflowKey, Obj({"f"}, "r"))}

AuthoredStepSettings ==
    {EmptyMap} \cup {One(KfKey, o) : o \in ObjectsOf("s")}

RunStepOverrides ==
    {EmptyMap,
     One("A", [settings |-> One(KfKey, Obj({"f"}, "o"))]),
     One("A", [settings |-> EmptyMap])}

SettingsScenarios ==
    {[pipeline |->
        ChainPipeline([DefaultPipelineConfiguration EXCEPT !.settings = ps],
                      [DefaultStepConfiguration EXCEPT !.settings = ss]),
      stack |-> st,
      run_configuration |->
        [DefaultRunConfiguration EXCEPT !.settings = rs, !.steps = ro]]
     : ps \in AuthoredPipelineSettings, ss \in AuthoredStepSettings,
       st \in SettingsStacks, rs \in RunSettings, ro \in RunStepOverrides}

ExtraScenarios ==
    {[pipeline |->
        ChainPipeline(
            [DefaultPipelineConfiguration EXCEPT
                !.extra = pe, !.failure_hook_source = ph,
                !.success_hook_source = ph],
            [DefaultStepConfiguration EXCEPT
                !.extra = se, !.failure_hook_source = sh, !.settings = ss]),
      stack |-> st,
      run_configuration |->
        [DefaultRunConfiguration EXCEPT !.extra = re, !.steps = ro]]
     : st \in {DefaultStack,
                StackOf(<<Orchestrator("KfSettings", Obj({"f", "g"}, "d"))>>)},
       ss \in {EmptyMap, One(KfKey, Obj({"f"}, "s"))},
       ro \in {EmptyMap, One("A", [extra |-> Obj({"x"}, "o")])},
       pe \in {EmptyMap, Obj({"x"}, "p"), Obj({"x", "y"}, "p")},
       re \in {EmptyMap, Obj({"x"}, "r"), Obj({"y"}, "r")},
       se \in {EmptyMap, Obj({"x"}, "s"), Obj({"z"}, "s")},
       ph \in {None, "pipeline_hook"}, sh \in {None, "step_hook"}}

FlagScenarios ==
    {[pipeline |->
        ChainPipeline(DefaultPipelineConfiguration,
            [DefaultStepConfiguration EXCEPT
                !.enable_cache = sf, !.enable_artifact_metadata = sf,
                !.enable_artifact_visualization = sf]),
      stack |-> DefaultStack,
      run_configuration |->
        [DefaultRunConfiguration EXCEPT
            !.enable_cache = rc, !.enable_artifact_metadata = rm,
            !.enable_artifact_visualization = rv,
            !.steps = IF of = None THEN EmptyMap
                      ELSE One("A", [enable_cache |-> of,
                                     enable_artifact_metadata |-> of,
                                     enable_artifact_visualization |-> of])]]
     : sf \in Flags, rc \in Flags, rm \in Flags, rv \in Flags, of \in Flags}

GraphScenarios ==
    {[pipeline |-> p, stack |-> DefaultStack,
      run_configuration |-> DefaultRunConfiguration] : p \in GraphPipelines}

\* inputs with one defect each: an unknown step in the run configuration, a
\* bad run name, settings at a level their class does not support, a
\* required component the stack lacks
DefectScenarios ==
    {[pipeline |-> ChainPipeline(DefaultPipelineConfiguration,
                                 DefaultStepConfiguration),
      stack |-> DefaultStack,
      run_configuration |-> rc]
     : rc \in {[DefaultRunConfiguration EXCEPT
                    !.steps = One("C", [enable_cache |-> "True"])],
               [DefaultRunConfiguration EXCEPT
                    !.steps = [n \in {"A", "C"} |-> [enable_cache |-> "True"]]],
               [DefaultRunConfiguration EXCEPT
                    !.run_name = <<[literal |-> "run-", field |-> "date"]>>],
               [DefaultRunConfiguration EXCEPT
                    !.run_name = <<[literal |-> "run-", field |-> "epoch"]>>],
               [DefaultRunConfiguration EXCEPT
                    !.run_name = <<[literal |-> "run", field |-> ""]>>],
               [DefaultRunConfiguration EXCEPT
                    !.run_name = <<[literal |-> "run-", field |-> "date"],
                                   [literal |-> "-", field |-> "time"]>>],
               [DefaultRunConfiguration EXCEPT
                    !.run_name = <<[literal |-> "run-", field |-> "date"],
                                   [literal |-> "-", field |-> "epoch"]>>],
               [DefaultRunConfiguration EXCEPT
                    !.settings = One(ResourcesKey, Obj({"f"}, "r"))]}}
    \cup
    {[pipeline |-> ChainPipeline(DefaultPipelineConfiguration, ac),
      stack |-> st,
      run_configuration |-> DefaultRunConfiguration]
     : ac \in {[DefaultStepConfiguration EXCEPT
                    !.settings = One(DockerKey, Obj({"f"}, "s"))],
               [DefaultStepConfiguration EXCEPT
                    !.settings = One(ResourcesKey, Obj({"f"}, "s"))],
               [DefaultStepConfiguration EXCEPT !.step_operator = "sm"],
               [DefaultStepConfiguration EXCEPT !.experiment_tracker = "mlf"]},
       st \in {DefaultStack,
               StackOf(<<Orchestrator("StepOnlySettings", Obj({"f"}, "d"))>>),
               StackOf(<<Orchestrator(None, EmptyMap),
                         [type |-> "step_operator", flavor |-> "sm",
                          name |-> "sm", settings_class |-> None,
                          config |-> EmptyMap]>>)}}

\* inputs with several defects at once
MultiDefectScenarios ==
    {[pipeline |->
        PipelineOf(<<"A", "B">>, up,
            [n \in {"A", "B"} |->
                IF n = "A" THEN ac ELSE DefaultStepConfiguration],
            DefaultPipelineConfiguration),
      stack |-> DefaultStack,
      run_configuration |->
        [DefaultRunConfiguration EXCEPT
            !.steps = ro, !.run_name = rn, !.settings = rs]]
     : up \in {[n \in {"A", "B"} |-> IF n = "B" THEN {"A"} ELSE {}],
               [n \in {"A", "B"} |-> IF n = "B" THEN {"A", "C"} ELSE {}],
               [n \in {"A", "B"} |-> IF n = "B" THEN {"A"} ELSE {"B"}],
               [n \in {"A", "B"} |-> IF n = "B" THEN {"C"} ELSE {"A"}]},
       ac \in {DefaultStepConfiguration,
               [DefaultStepConfiguration EXCEPT
                    !.settings = One(DockerKey, Obj({"f"}, "s"))],
               [DefaultStepConfiguration EXCEPT !.step_operator = "sm"]},
       ro \in {EmptyMap, One("C", [enable_cache |-> "True"])},
       rn \in {<<>>, <<[literal |-> "run-", field |-> "epoch"]>>},
       rs \in {EmptyMap, One(ResourcesKey, Obj({"f"}, "r"))}}

Component(type, name) ==
    [type |-> type, flavor |-> name, name |-> name,
     settings_class |-> None, config |-> EmptyMap]

\* a step that requires a step operator the stack lacks, next to a step with
\* settings its level does not support
OrderScenarios ==
    {[pipeline |->
        PipelineOf(<<"A", "B">>,
            [n \in {"A", "B"} |-> IF n = "B" THEN {"A"} ELSE {}],
            [n \in {"A", "B"} |-> IF n = "A" THEN ac ELSE bc],
            DefaultPipelineConfiguration),
      stack |-> DefaultStack,
      run_configuration |-> DefaultRunConfiguration]
     : ac \in {[DefaultStepConfiguration EXCEPT !.step_operator = "sm"],
               [DefaultStepConfiguration EXCEPT
                    !.step_operator = "sm",
                    !.settings = One(DockerKey, Obj({"f"}, "s"))]},
       bc \in {[DefaultStepConfiguration EXCEPT
                    !.settings = One(DockerKey, Obj({"f"}, "s"))],
               [DefaultStepConfiguration EXCEPT
                    !.experiment_tracker = "mlf"]}}

\* steps that name a step operator or an experiment tracker, authored or by
\* a per-step override of the run configuration, on stacks with and without
RequirementScenarios ==
    {[pipeline |->
        ChainPipeline(DefaultPipelineConfiguration,
            [DefaultStepConfiguration EXCEPT
                !.step_operator = so, !.experiment_tracker = et]),
      stack |-> st,
      run_configuration |-> [DefaultRunConfiguration EXCEPT !.steps = ro]]
     : so \in {None, "sm", "vertex"}, et \in {None, "mlf"},
       ro \in {EmptyMap,
               One("A", [step_operator |-> "sm"]),
               One("A", [step_operator |-> "vertex"]),
               One("B", [experiment_tracker |-> "mlf"])},
       st \in {DefaultStack,
               StackOf(<<Orchestrator(None, EmptyMap),
                         Component("step_operator", "sm")>>),
               StackOf(<<Orchestrator(None, EmptyMap),
                         Component("step_operator", "sm"),
                         Component("experiment_tracker", "mlf")>>)}}

\* the output of a step, as an input artifact of another step
Artifact(invocation_id, output_name) ==
    [invocation_id |-> invocation_id, output_name |-> output_name,
     annotation |-> "Any"]

\* pipelines whose steps consume outputs of their upstream steps, with A
\* declared last; written in the new and in the legacy, class-based style
ArtifactScenarios ==
    {[pipeline |->
        [PipelineOf(order,
            [n \in {"A", "B", "C"} |->
                IF n = "A" THEN {"B", "C"} ELSE IF n = "B" THEN b_up ELSE {}],
            [n \in {"A", "B", "C"} |-> DefaultStepConfiguration],
            DefaultPipelineConfiguration)
         EXCEPT !.input_artifacts["A"] =
                    [x |-> Artifact("C", "out"), y |-> Artifact("B", "out")],
                !.input_artifacts["B"] =
                    IF b_up = {} THEN EmptyMap
                    ELSE [x |-> Artifact("C", "other")],
                !.is_base_pipeline = legacy,
                !.parameters = params],
      stack |-> st,
      run_configuration |-> rc]
     : order \in {<<"C", "B", "A">>, <<"B", "C", "A">>},
       b_up \in {{}, {"C"}},
       legacy \in BOOLEAN,
       params \in {EmptyMap, [n \in {"epochs"} |-> "ten"]},
       st \in {DefaultStack,
               StackOf(<<Orchestrator("KfSettings", Obj({"f"}, "d"))>>)},
       rc \in {DefaultRunConfiguration,
               [DefaultRunConfiguration EXCEPT !.enable_cache = "False"]}}

\* run configurations that name several steps the pipeline does not have
UnknownStepScenarios ==
    {[pipeline |->
        PipelineOf(<<"A">>, [n \in {"A"} |-> {}],
            [n \in {"A"} |-> DefaultStepConfiguration],
            DefaultPipelineConfiguration),
      stack |-> DefaultStack,
      run_configuration |->
        [DefaultRunConfiguration EXCEPT
            !.steps = [n \in names |-> [enable_cache |-> "True"]]]]
     : names \in {{"B"}, {"B", "C"}, {"A", "B", "C"}}}

Scenarios ==
    GraphScenarios \cup SettingsScenarios \cup ExtraScenarios
        \cup FlagScenarios \cup DefectScenarios \cup MultiDefectScenarios
        \cup RequirementScenarios \cup UnknownStepScenarios
        \cup ArtifactScenarios \cup OrderScenarios

(***************************************************************************)
(* The state machine                                                       *)
(***************************************************************************)
NoOutcome == [status |-> "none"]

RaisedBare(error, detail) ==
    [status |-> "raised", error |-> "Exception", detail |-> detail]

\* `raise <error>(<message built from detail>)`
Raised(error, detail) ==
    [status |-> "raised", error |-> error, detail |-> detail]

ShallowRef(ref) == ref

\* copy.deepcopy(pipeline): the reference of the new, independent object
deepcopy(ref) == "copy"

\* the locals of a call that has not started
Locals(operation, first, ref, config) ==
    [op |-> operation, pc |-> first, pipeline |-> ref,
     run_configuration |-> config, pipeline_settings |-> EmptyMap,
     sorted_invocations |-> <<>>, steps |-> <<>>, outcome |-> NoOutcome,
     calls |-> 0]

NoOtherCall == Locals("none", "idle", "orig", DefaultRunConfiguration)

(***************************************************************************)
(* The GCP service connector and the secret store, idle                    *)
(***************************************************************************)
Connectors == {"A", "B"}

\* key = (auth_method, resource_type, resource_id)
SessionKeys ==
    {<<"service-account", "gcs-bucket", None>>,
     <<"service-account", "gcs-bucket", "gs://b">>}

\* Optional[datetime.datetime]: the empty set is None
NoExpiry == {}

ExpiresAt(t) == {t}

\* the object that `self._session_cache` is: the dictionary that the class
\* body of GCPServiceConnector creates, which get_session reads and writes
\* in place and never rebinds on the instance
CacheHolder(self) == "GCPServiceConnector"

CacheHolders == {CacheHolder(c) : c \in Connectors}

connectors == <<session_cache, now, authenticated, result>>

NoSessions ==
    /\ session_cache = [h \in CacheHolders |-> EmptyMap]
    /\ now = 0
    /\ authenticated = [c \in Connectors |-> 0]
    /\ result = [seq |-> 0, status |-> "none"]

SecretNames == {"s1", "s2", "s3"}

secret_store == <<secrets, cli>>

NoSecrets ==
    /\ secrets = EmptyMap
    /\ cli = [seq |-> 0, command |-> "none", name |-> None, exit_code |-> 0,
              output |-> {}, before |-> <<>>]

\* the caller holds the objects of the scenario and has made no call
CallerHolds(sc) ==
    /\ heap = [r \in {"orig"} |-> sc.pipeline]
    /\ given = sc.pipeline
    /\ stack = sc.stack
    /\ run_configuration = sc.run_configuration
    /\ op = "none"
    /\ pc = "idle"
    /\ pipeline = "orig"
    /\ pipeline_settings = EmptyMap
    /\ layers = <<>>
    /\ sorted_invocations = <<>>
    /\ steps = <<>>
    /\ outcome = NoOutcome
    /\ history = <<>>

Init ==
    /\ other = NoOtherCall
    /\ NoSessions
    /\ NoSecrets
    /\ \E sc \in Scenarios : CallerHolds(sc)

inputs == <<given, stack, run_configuration>>

\* what no step of this call touches
elsewhere ==
    <<other, session_cache, now, authenticated, result, secrets, cli>>

\* a call starts: `pipeline = copy.deepcopy(pipeline)`
Start(operation, first) ==
    /\ op = "none"
    /\ Len(history) < MaxCalls
    /\ op' = operation
    /\ pc' = first
    /\ pipeline' = deepcopy("orig")
    /\ heap' = [r \in DOMAIN heap \cup {deepcopy("orig")} |->
                    IF r = deepcopy("orig") THEN heap["orig"] ELSE heap[r]]
    /\ UNCHANGED <<inputs, elsewhere, pipeline_settings, layers, sorted_invocations,
                   steps, outcome, history>>

CompileStart == Start("compile", "apply_run_configuration")

CompileSpecStart == Start("compile_spec", "sort")

Raise(error, detail) ==
    /\ pc' = "raised"
    /\ outcome' = Raised(error, detail)

\* self._apply_run_configuration(pipeline=pipeline, config=run_configuration)
ApplyRunConfiguration ==
    /\ op = "compile" /\ pc = "apply_run_configuration"
    /\ LET r == _apply_run_configuration(heap[pipeline], run_configuration)
       IN  /\ heap' = [heap EXCEPT ![pipeline] = r.p]
           /\ IF r.error # None
              THEN Raise(r.error, {r.name})
              ELSE pc' = "apply_stack_default_settings" /\ UNCHANGED outcome
    /\ UNCHANGED <<inputs, elsewhere, op, pipeline, pipeline_settings, layers,
                   sorted_invocations, steps, history>>

ConfigureKeepsArgument(d) == d

\* the dictionary that pipeline.configuration.settings is after
\* pipeline.configure(settings=d): one that configure built from the entries
\* of d, not the object d itself
ConfigureKeeps(d) == "pipeline.configuration.settings"

\* self._apply_stack_default_settings(pipeline=pipeline, stack=stack): the
\* method writes `pipeline_settings[settings_key] = ...` into the dictionary
\* that pipeline.configuration.settings is
ApplyStackDefaultSettings ==
    /\ op = "compile" /\ pc = "apply_stack_default_settings"
    /\ heap' = [heap EXCEPT ![pipeline] =
                    _apply_stack_default_settings(@, stack)]
    /\ run_configuration' =
            IF ConfigureKeeps("run_configuration.settings")
                    = "run_configuration.settings"
            THEN [run_configuration EXCEPT
                    !.settings = heap'[pipeline].configuration.settings]
            ELSE run_configuration
    /\ pc' = "verify_run_name"
    /\ UNCHANGED <<given, stack, elsewhere, op, pipeline, pipeline_settings,
                   layers, sorted_invocations, steps, outcome, history>>

\* if run_configuration.run_name: self._verify_run_name(...)
VerifyRunName ==
    /\ op = "compile" /\ pc = "verify_run_name"
    /\ IF /\ run_configuration.run_name # <<>>
          /\ _verify_run_name(run_configuration.run_name) # None
       THEN Raise("ValueError",
                  <<run_configuration.run_name, valid_placeholder_names>>)
       ELSE pc' = "pipeline_settings" /\ UNCHANGED outcome
    /\ UNCHANGED <<inputs, elsewhere, heap, op, pipeline, pipeline_settings, layers,
                   sorted_invocations, steps, history>>

\* pipeline_settings = self._filter_and_validate_settings(...);
\* pipeline.configure(settings=pipeline_settings, merge=False);
\* settings_to_passdown = {...}
FilterPipelineSettings ==
    /\ op = "compile" /\ pc = "pipeline_settings"
    /\ LET r == _filter_and_validate_settings(
                    heap[pipeline].configuration.settings, PIPELINE, stack)
       IN  IF r.error # None
           THEN /\ Raise(r.error, r.keys)
                /\ UNCHANGED <<heap, pipeline_settings>>
           ELSE /\ heap' = [heap EXCEPT ![pipeline].configuration =
                                configure(@, [settings |-> r.settings], FALSE)]
                /\ pipeline_settings' = r.settings
                /\ pc' = "sort"
                /\ UNCHANGED outcome
    /\ UNCHANGED <<inputs, elsewhere, op, pipeline, layers, sorted_invocations, steps,
                   history>>

\* self._get_sorted_invocations(pipeline=pipeline)
SortInvocations ==
    /\ op \in {"compile", "compile_spec"} /\ pc = "sort"
    /\ LET r == _get_sorted_invocations(heap[pipeline])
       IN  /\ layers' = r.layers
           /\ sorted_invocations' = r.sorted
           /\ IF r.error # None
              THEN Raise(r.error, <<r.reason, r.names>>)
              ELSE pc' = "steps" /\ UNCHANGED outcome
    /\ UNCHANGED <<inputs, elsewhere, heap, op, pipeline, pipeline_settings, steps,
                   history>>

CompileStepsEnsuringFirst ==
    /\ op = "compile" /\ pc = "steps"
    /\ LET passdown == settings_to_passdown(pipeline_settings, stack)
           r == CompileSteps(heap[pipeline], sorted_invocations, passdown,
                             stack)
           e == _ensure_required_stack_components_exist(stack,
                    CompileStepsThatPass(heap[pipeline], sorted_invocations,
                                         passdown, stack).steps)
       IN  /\ steps' = r.steps
           /\ IF e.error # None
              THEN Raise(e.error, <<e.name, e.kind>>)
              ELSE IF r.error # None
              THEN Raise(r.error, {})
              ELSE pc' = "ensure" /\ UNCHANGED outcome
    /\ UNCHANGED <<inputs, elsewhere, heap, op, pipeline, pipeline_settings,
                   layers, sorted_invocations, history>>

\* steps = {name: self._compile_step_invocation(...) for name, step in ...}
CompileStepInvocations ==
    /\ op = "compile" /\ pc = "steps"
    /\ LET r == CompileSteps(heap[pipeline], sorted_invocations,
                    settings_to_passdown(pipeline_settings, stack), stack)
       IN  /\ steps' = r.steps
           /\ IF r.error # None
              THEN Raise(r.error, {})
              ELSE pc' = "ensure" /\ UNCHANGED outcome
    /\ UNCHANGED <<inputs, elsewhere, heap, op, pipeline, pipeline_settings, layers,
                   sorted_invocations, history>>

EnsureAuthoredStackComponentsExist ==
    /\ op = "compile" /\ pc = "ensure"
    /\ LET authored == [i \in DOMAIN steps |->
                [steps[i] EXCEPT
                    !.config = given.step_configuration[steps[i].name]]]
           r == _ensure_required_stack_components_exist(stack, authored)
       IN  IF r.error # None
           THEN Raise(r.error, <<r.name, r.kind>>)
           ELSE pc' = "assemble" /\ UNCHANGED outcome
    /\ UNCHANGED <<inputs, elsewhere, heap, op, pipeline, pipeline_settings, layers,
                   sorted_invocations, steps, history>>

\* self._ensure_required_stack_components_exist(stack=stack, steps=steps)
EnsureRequiredStackComponentsExist ==
    /\ op = "compile" /\ pc = "ensure"
    /\ LET r == _ensure_required_stack_components_exist(stack, steps)
       IN  IF r.error # None
           THEN Raise(r.error, <<r.name, r.kind>>)
           ELSE pc' = "assemble" /\ UNCHANGED outcome
    /\ UNCHANGED <<inputs, elsewhere, heap, op, pipeline, pipeline_settings, layers,
                   sorted_invocations, steps, history>>

CompileReturnSpecOfConfiguration ==
    /\ op = "compile" /\ pc = "assemble"
    /\ pc' = "returned"
    /\ outcome' =
        [status |-> "returned",
         deployment |->
            [run_name_template |->
                IF run_configuration.run_name # <<>>
                THEN run_configuration.run_name
                ELSE _get_default_run_name(heap[pipeline].name),
             pipeline_configuration |-> heap[pipeline].configuration,
             step_configurations |->
                [i \in DOMAIN steps |->
                    [name |-> steps[i].name, spec |-> steps[i].spec,
                     config |-> steps[i].config]]],
         spec |-> [_compute_pipeline_spec(heap[pipeline],
                        [i \in DOMAIN steps |-> steps[i].spec])
                    EXCEPT !.parameters =
                        Update(@, heap[pipeline].configuration.extra)]]
    /\ UNCHANGED <<inputs, elsewhere, heap, op, pipeline, pipeline_settings,
                   layers, sorted_invocations, steps, history>>

\* the deployment and the pipeline spec are built and returned
CompileReturn ==
    /\ op = "compile" /\ pc = "assemble"
    /\ pc' = "returned"
    /\ outcome' =
        [status |-> "returned",
         deployment |->
            [run_name_template |->
                IF run_configuration.run_name # <<>>
                THEN run_configuration.run_name
                ELSE _get_default_run_name(heap[pipeline].name),
             pipeline_configuration |-> heap[pipeline].configuration,
             step_configurations |->
                [i \in DOMAIN steps |->
                    [name |-> steps[i].name, spec |-> steps[i].spec,
                     config |-> steps[i].config]]],
         spec |-> _compute_pipeline_spec(heap[pipeline],
                    [i \in DOMAIN steps |-> steps[i].spec])]
    /\ UNCHANGED <<inputs, elsewhere, heap, op, pipeline, pipeline_settings, layers,
                   sorted_invocations, steps, history>>

CompileSpecValidatingSettings ==
    /\ op = "compile_spec" /\ pc = "steps"
    /\ LET r == CompileSteps(heap[pipeline], sorted_invocations, EmptyMap,
                             stack)
       IN  IF r.error # None
           THEN Raise(r.error, {})
           ELSE /\ pc' = "returned"
                /\ outcome' =
                    [status |-> "returned",
                     spec |-> _compute_pipeline_spec(heap[pipeline],
                                StepSpecs(heap[pipeline], sorted_invocations))]
    /\ UNCHANGED <<inputs, elsewhere, heap, op, pipeline, pipeline_settings,
                   layers, sorted_invocations, steps, history>>

\* compile_spec: the step specs in sorted order, then the pipeline spec
CompileSpecReturn ==
    /\ op = "compile_spec" /\ pc = "steps"
    /\ pc' = "returned"
    /\ outcome' =
        [status |-> "returned",
         spec |-> _compute_pipeline_spec(heap[pipeline],
                    StepSpecs(heap[pipeline], sorted_invocations))]
    /\ UNCHANGED <<inputs, elsewhere, heap, op, pipeline, pipeline_settings, layers,
                   sorted_invocations, steps, history>>

\* the call is over: its locals and its working copy are dropped
Finish ==
    /\ pc \in {"returned", "raised"}
    /\ history' = Append(history, [op |-> op, outcome |-> outcome])
    /\ op' = "none"
    /\ pc' = "idle"
    /\ pipeline' = "orig"
    /\ heap' = Restrict(heap, DOMAIN heap \ {"copy"})
    /\ pipeline_settings' = EmptyMap
    /\ layers' = <<>>
    /\ sorted_invocations' = <<>>
    /\ steps' = <<>>
    /\ outcome' = NoOutcome
    /\ UNCHANGED <<inputs, elsewhere>>

Next ==
    \/ CompileStart
    \/ ApplyRunConfiguration
    \/ ApplyStackDefaultSettings
    \/ VerifyRunName
    \/ FilterPipelineSettings
    \/ SortInvocations
    \/ CompileStepInvocations
    \/ EnsureRequiredStackComponentsExist
    \/ CompileReturn
    \/ CompileSpecStart
    \/ CompileSpecReturn
    \/ Finish

Spec == Init /\ [][Next]_vars

(***************************************************************************)
(* A second call that runs at the same time on the same pipeline and stack *)
(***************************************************************************)
MaxOtherCalls == 1

\* one step of a call: the locals and the working copy after the method at
\* l.pc has run on the working copy p
Advance(l, p, s) ==
    LET raise(error, detail) ==
            [l EXCEPT !.pc = "raised", !.outcome = Raised(error, detail)]
        at(next) == [l EXCEPT !.pc = next]
    IN  CASE l.pc = "apply_run_configuration" ->
                LET r == _apply_run_configuration(p, l.run_configuration)
                IN  [l |-> IF r.error # None THEN raise(r.error, {r.name})
                           ELSE at("apply_stack_default_settings"),
                     p |-> r.p]
          [] l.pc = "apply_stack_default_settings" ->
                [l |-> at("verify_run_name"),
                 p |-> _apply_stack_default_settings(p, s)]
          [] l.pc = "verify_run_name" ->
                [l |-> IF /\ l.run_configuration.run_name # <<>>
                          /\ _verify_run_name(l.run_configuration.run_name)
                                # None
                       THEN raise("ValueError",
                                  <<l.run_configuration.run_name,
                                    valid_placeholder_names>>)
                       ELSE at("pipeline_settings"),
                 p |-> p]
          [] l.pc = "pipeline_settings" ->
                LET r == _filter_and_validate_settings(
                            p.configuration.settings, PIPELINE, s)
                IN  IF r.error # None
                    THEN [l |-> raise(r.error, r.keys), p |-> p]
                    ELSE [l |-> [l EXCEPT !.pc = "sort",
                                          !.pipeline_settings = r.settings],
                          p |-> [p EXCEPT !.configuration =
                                    configure(@, [settings |-> r.settings],
                                              FALSE)]]
          [] l.pc = "sort" ->
                LET r == _get_sorted_invocations(p)
                IN  [l |-> IF r.error # None
                           THEN [raise(r.error, <<r.reason, r.names>>)
                                    EXCEPT !.sorted_invocations = r.sorted]
                           ELSE [l EXCEPT !.pc = "steps",
                                          !.sorted_invocations = r.sorted],
                     p |-> p]
          [] l.pc = "steps" /\ l.op = "compile" ->
                LET r == CompileSteps(p, l.sorted_invocations,
                            settings_to_passdown(l.pipeline_settings, s), s)
                IN  [l |-> IF r.error # None
                           THEN [raise(r.error, {}) EXCEPT !.steps = r.steps]
                           ELSE [l EXCEPT !.pc = "ensure", !.steps = r.steps],
                     p |-> p]
          [] l.pc = "steps" /\ l.op = "compile_spec" ->
                [l |-> [l EXCEPT
                        !.pc = "returned",
                        !.outcome =
                            [status |-> "returned",
                             spec |-> _compute_pipeline_spec(p,
                                        StepSpecs(p, l.sorted_invocations))]],
                 p |-> p]
          [] l.pc = "ensure" ->
                LET r == _ensure_required_stack_components_exist(s, l.steps)
                IN  [l |-> IF r.error # None
                           THEN raise(r.error, <<r.name, r.kind>>)
                           ELSE at("assemble"),
                     p |-> p]
          [] l.pc = "assemble" ->
                [l |-> [l EXCEPT
                        !.pc = "returned",
                        !.outcome =
                            [status |-> "returned",
                             deployment |->
                                [run_name_template |->
                                    IF l.run_configuration.run_name # <<>>
                                    THEN l.run_configuration.run_name
                                    ELSE _get_default_run_name(p.name),
                                 pipeline_configuration |-> p.configuration,
                                 step_configurations |->
                                    [i \in DOMAIN l.steps |->
                                        [name |-> l.steps[i].name,
                                         spec |-> l.steps[i].spec,
                                         config |-> l.steps[i].config]]],
                             spec |-> _compute_pipeline_spec(p,
                                        [i \in DOMAIN l.steps |->
                                            l.steps[i].spec])]],
                 p |-> p]

\* the outcome of a call that runs from l on p with nothing else running
RECURSIVE Run(_, _, _)
Run(l, p, s) ==
    IF l.pc \in {"returned", "raised"} THEN l.outcome
    ELSE Run(Advance(l, p, s).l, Advance(l, p, s).p, s)

FirstOf(operation) ==
    IF operation = "compile" THEN "apply_run_configuration" ELSE "sort"

\* what the operation returns or raises for these arguments when run alone
Alone(operation, p, s, config) ==
    Run(Locals(operation, FirstOf(operation), "copy", config), p, s)

OtherStartShared(operation) ==
    /\ other.op = "none"
    /\ other.calls < MaxOtherCalls
    /\ other' = [Locals(operation, FirstOf(operation), "orig",
                        other.run_configuration)
                    EXCEPT !.calls = other.calls]
    /\ UNCHANGED <<inputs, heap, op, pc, pipeline, pipeline_settings, layers,
                   sorted_invocations, steps, outcome, history, connectors,
                   secret_store>>

\* the other call starts: `pipeline = copy.deepcopy(pipeline)`
OtherStart(operation) ==
    /\ other.op = "none"
    /\ other.calls < MaxOtherCalls
    /\ other' = [Locals(operation, FirstOf(operation), "copy2",
                        other.run_configuration)
                    EXCEPT !.calls = other.calls]
    /\ heap' = [r \in DOMAIN heap \cup {"copy2"} |->
                    IF r = "copy2" THEN heap["orig"] ELSE heap[r]]
    /\ UNCHANGED <<inputs, op, pc, pipeline, pipeline_settings, layers,
                   sorted_invocations, steps, outcome, history, connectors,
                   secret_store>>

OtherCompileStart == OtherStart("compile")

OtherCompileSpecStart == OtherStart("compile_spec")

\* the other call runs its next method
OtherStep ==
    /\ other.op # "none"
    /\ other.pc \notin {"returned", "raised"}
    /\ LET a == Advance(other, heap[other.pipeline], stack)
       IN  /\ other' = a.l
           /\ heap' = [heap EXCEPT ![other.pipeline] = a.p]
    /\ UNCHANGED <<inputs, op, pc, pipeline, pipeline_settings, layers,
                   sorted_invocations, steps, outcome, history, connectors,
                   secret_store>>

\* the other call is over
OtherFinish ==
    /\ other.pc \in {"returned", "raised"}
    /\ other.op # "none"
    /\ other' = [NoOtherCall EXCEPT
                    !.run_configuration = other.run_configuration,
                    !.calls = other.calls + 1]
    /\ heap' = Restrict(heap, DOMAIN heap \ {"copy2"})
    /\ UNCHANGED <<inputs, op, pc, pipeline, pipeline_settings, layers,
                   sorted_invocations, steps, outcome, history, connectors,
                   secret_store>>

OtherRunConfigurations ==
    {DefaultRunConfiguration,
     [DefaultRunConfiguration EXCEPT
        !.enable_cache = "False",
        !.settings = One(KfKey, Obj({"g"}, "r"))],
     [DefaultRunConfiguration EXCEPT
        !.steps = One("A", [settings |-> One(KfKey, Obj({"f"}, "o")),
                            step_operator |-> "sm"])],
     [DefaultRunConfiguration EXCEPT
        !.steps = One("C", [enable_cache |-> "True"])]}

\* two callers share a pipeline and a stack; each has a run configuration
ConcurrentScenarios ==
    {[pipeline |->
        ChainPipeline(
            [DefaultPipelineConfiguration EXCEPT
                !.settings = One(KfKey, Obj({"f"}, "p"))],
            [DefaultStepConfiguration EXCEPT
                !.settings = One(KfKey, Obj({"f"}, "s")),
                !.enable_cache = "True"]),
      stack |-> st,
      run_configuration |-> rc,
      other_run_configuration |-> orc]
     : st \in {DefaultStack,
               StackOf(<<Orchestrator("KfSettings", Obj({"f", "g"}, "d"))>>)},
       rc \in OtherRunConfigurations, orc \in OtherRunConfigurations}

InitConcurrent ==
    \E sc \in ConcurrentScenarios :
        /\ NoSessions
        /\ NoSecrets
        /\ CallerHolds(sc)
        /\ other = [NoOtherCall EXCEPT
                        !.run_configuration = sc.other_run_configuration]

NextConcurrent ==
    \/ Next
    \/ OtherCompileStart
    \/ OtherCompileSpecStart
    \/ OtherStep
    \/ OtherFinish

SpecConcurrent == InitConcurrent /\ [][NextConcurrent]_vars

(***************************************************************************)
(* What the properties below speak about                                   *)
(***************************************************************************)
Working == heap[pipeline]

Finished == pc \in {"returned", "raised"}

\* the sort of the running call has succeeded
SortDone == op # "none" /\ pc \in {"steps", "ensure", "assemble", "returned"}

\* the sort of the running call raised
SortRaised == pc = "raised" /\ outcome.error = "RuntimeError"

\* the steps of the running compile are compiled
StepsDone == op = "compile" /\ pc \in {"ensure", "assemble", "returned"}

UnknownUpstream(p) ==
    \E n \in available_steps(p) : ~(p.upstream_steps[n] \subseteq available_steps(p))

RECURSIVE AncestorsWithin(_, _, _)
AncestorsWithin(p, S, k) ==
    IF k = 0 THEN S
    ELSE AncestorsWithin(p,
            S \cup UNION {p.upstream_steps[m] : m \in S \cap available_steps(p)},
            k - 1)

Ancestors(p, n) == AncestorsWithin(p, p.upstream_steps[n], Len(p.invocations))

HasCycle(p) == \E n \in available_steps(p) : n \in Ancestors(p, n)

LayerOf(n) == CHOOSE i \in DOMAIN layers : n \in Range(layers[i])

PositionIn(seq, n) == CHOOSE i \in DOMAIN seq : seq[i] = n

Occurrences(n) ==
    {<<i, j>> \in (DOMAIN layers) \X (1..Len(InsertionOrder)) :
        j \in DOMAIN layers[i] /\ layers[i][j] = n}

MaxOf(S) == CHOOSE x \in S : \A y \in S : y <= x

\* the names of a sequence of compiled steps or step specs, in order
StepOrderOf(specs) == [i \in DOMAIN specs |-> specs[i].pipeline_parameter_name]

UpstreamComesFirst(p, order) ==
    /\ Range(order) = available_steps(p)
    /\ Len(order) = Len(p.invocations)
    /\ \A n \in available_steps(p) : \A u \in p.upstream_steps[n] :
            PositionIn(order, u) < PositionIn(order, n)

(***************************************************************************)
(* C1: for an acyclic invocation graph the sort succeeds, its layers hold  *)
(* every invocation exactly once, every invocation lies in a later layer   *)
(* than each of its upstream invocations, and in the order of the          *)
(* deployment's step configurations and of the pipeline spec's steps each  *)
(* step comes after all of its upstream steps.                             *)
(***************************************************************************)
C1_LayersAreTopological ==
    /\ (SortRaised => (UnknownUpstream(Working) \/ HasCycle(Working)))
    /\ SortDone =>
        /\ \A n \in available_steps(Working) : Cardinality(Occurrences(n)) = 1
        /\ \A i \in DOMAIN layers : Range(layers[i]) \subseteq available_steps(Working)
        /\ \A n \in available_steps(Working) :
                \A u \in Working.upstream_steps[n] : LayerOf(u) < LayerOf(n)
        /\ sorted_invocations = Flatten(layers)
        /\ UpstreamComesFirst(Working, sorted_invocations)
    /\ (pc = "returned" /\ op = "compile") =>
        /\ UpstreamComesFirst(Working,
                [i \in DOMAIN outcome.deployment.step_configurations |->
                    outcome.deployment.step_configurations[i].name])
        /\ UpstreamComesFirst(Working, StepOrderOf(outcome.spec.steps))
    /\ (pc = "returned" /\ op = "compile_spec") =>
        UpstreamComesFirst(Working, StepOrderOf(outcome.spec.steps))

\* a compile returned for a graph in which one step has two upstream steps
\* that lie in different layers
C1_Witness ==
    /\ pc = "returned" /\ op = "compile"
    /\ Len(layers) = 3
    /\ \E n \in available_steps(Working) :
            Cardinality(Working.upstream_steps[n]) = 2

(***************************************************************************)
(* C2: the layering has minimal depth: an invocation without upstream      *)
(* invocations is in the first layer, every other one in the layer right   *)
(* after the last layer that holds one of its upstream invocations.        *)
(***************************************************************************)
C2_LayeringIsMinimal ==
    SortDone =>
        \A n \in available_steps(Working) :
            LayerOf(n) =
                IF Working.upstream_steps[n] = {} THEN 1
                ELSE 1 + MaxOf({LayerOf(u) : u \in Working.upstream_steps[n]})

\* a sort that put a step with upstream steps in layers 1 and 2 in layer 3
C2_Witness ==
    /\ SortDone
    /\ \E n \in available_steps(Working) :
            /\ LayerOf(n) = 3
            /\ {LayerOf(u) : u \in Working.upstream_steps[n]} = {1, 2}

(***************************************************************************)
(* C3: sorting a graph with a cycle (a self-loop included) ends in a       *)
(* structural error; a sort that succeeds misses no invocation.            *)
(***************************************************************************)
C3_CycleRaises ==
    /\ [][(pc = "sort" /\ HasCycle(Working)) =>
            (pc' = "raised" /\ outcome'.error = "RuntimeError"
                /\ layers' = <<>> /\ sorted_invocations' = <<>>)]_vars
    /\ [](SortDone =>
            (~HasCycle(Working)
                /\ Range(sorted_invocations) = available_steps(Working)))

\* the sort of a graph that has a cycle and no unknown upstream step raised
C3_Witness ==
    /\ SortRaised
    /\ HasCycle(Working) /\ ~UnknownUpstream(Working)
    /\ outcome.detail[1] = "cycle"
    /\ \E n \in available_steps(Working) : n \notin Working.upstream_steps[n]

(***************************************************************************)
(* C4 as stated: when an invocation lists an upstream step that is no      *)
(* invocation of the pipeline, compile and compile_spec both end in the    *)
(* structural error that names the missing steps.                          *)
(***************************************************************************)
NamesMissingSteps ==
    /\ pc = "raised"
    /\ outcome.error = "RuntimeError"
    /\ outcome.detail[1] = "invalid upstream steps"
    /\ outcome.detail[2] # {}
    /\ \E n \in available_steps(given) :
            outcome.detail[2] = given.upstream_steps[n] \ available_steps(given)

C4_Original == (Finished /\ UnknownUpstream(given)) => NamesMissingSteps

(***************************************************************************)
(* C4 amended: with an unknown upstream step both operations fail;         *)
(* compile_spec always with the structural error naming the missing steps  *)
(* of the first offending invocation, compile with that error unless an    *)
(* earlier phase (run configuration, run name, pipeline-level settings)    *)
(* has raised already.  The check of every invocation comes before any     *)
(* sorting, and it passes exactly when every upstream set is a subset of   *)
(* the invocation keys.                                                    *)
(***************************************************************************)
C4_UnknownUpstreamRaises ==
    /\ (Finished /\ UnknownUpstream(given)) =>
        /\ pc = "raised"
        /\ op = "compile_spec" => NamesMissingSteps
        /\ (op = "compile"
                /\ outcome.error \notin {"KeyError", "ValueError", "TypeError"})
            => NamesMissingSteps
    /\ SortRaised =>
        IF UnknownUpstream(Working)
        THEN /\ outcome.detail[1] = "invalid upstream steps"
             /\ outcome.detail[2] =
                    invalid_upstream_steps(Working,
                        Head(SelectSeq(Working.invocations, LAMBDA n :
                            ~(Working.upstream_steps[n]
                                \subseteq Range(Working.invocations)))))
             /\ layers = <<>> /\ sorted_invocations = <<>>
        ELSE outcome.detail[1] = "cycle"
    /\ SortDone => ~UnknownUpstream(Working)

\* a compile raised for an unknown upstream step of the last invocation
\* although the invocations before it form a cycle
C4_Witness ==
    /\ op = "compile" /\ NamesMissingSteps
    /\ HasCycle(Working)
    /\ Working.upstream_steps[Working.invocations[1]]
            \subseteq available_steps(Working)

(***************************************************************************)
(* C5: the pipeline object of the caller is never modified, whether a call *)
(* returns or raises: every change is made to the deep copy.               *)
(***************************************************************************)
C5_CallerPipelineUntouched == heap["orig"] = given

\* a compile raised after it had already changed its working copy
C5_Witness ==
    /\ op = "compile" /\ pc = "raised"
    /\ pipeline # "orig"
    /\ Working # given
    /\ heap["orig"] = given

(***************************************************************************)
(* Settings layers, for the properties about precedence                    *)
(***************************************************************************)
\* the object under a key of a settings mapping, empty when the key is absent
At(settings, k) == IF k \in DOMAIN settings THEN settings[k] ELSE EmptyMap

\* the value of field f in the first of the layers (highest first) that sets it
RECURSIVE HighestOf(_, _)
HighestOf(layers_, f) ==
    IF layers_ = <<>> THEN "unset"
    ELSE IF f \in DOMAIN Head(layers_) THEN Head(layers_)[f]
    ELSE HighestOf(Tail(layers_), f)

\* the default settings the stack holds under a key
StackDefault(k) ==
    IF \E i \in ComponentsWithSettings(stack) :
            get_stack_component_setting_key(stack.components[i]) = k
    THEN _get_default_settings(
            stack.components[CHOOSE i \in ComponentsWithSettings(stack) :
                get_stack_component_setting_key(stack.components[i]) = k])
    ELSE EmptyMap

\* what the run configuration says about key k for step n
RunLevel(n, k) ==
    Update(At(run_configuration.settings, k),
           IF n \in DOMAIN run_configuration.steps
                /\ "settings" \in DOMAIN run_configuration.steps[n]
           THEN At(run_configuration.steps[n].settings, k)
           ELSE EmptyMap)

\* the pipeline once the run configuration has been applied to it
Configured == _apply_run_configuration(given, run_configuration).p

CompiledSettings(i) == outcome.deployment.step_configurations[i].config.settings

CompiledName(i) == outcome.deployment.step_configurations[i].name

C7_StepOverPipeline ==
    StepsDone =>
        \A i \in DOMAIN steps :
            LET own  == Working.step_configuration[steps[i].name]
                down == settings_to_passdown(pipeline_settings, stack)
                c    == steps[i].config
            IN  /\ \A k \in DOMAIN down :
                    /\ k \in DOMAIN c.settings
                    /\ \A f \in DOMAIN down[k] :
                        /\ f \in DOMAIN c.settings[k]
                        /\ c.settings[k][f] =
                            IF f \in DOMAIN At(own.settings, k)
                            THEN own.settings[k][f] ELSE down[k][f]
                /\ \A k \in DOMAIN own.settings \cap DOMAIN c.settings :
                    \A f \in DOMAIN own.settings[k] :
                        f \in DOMAIN c.settings[k]
                            /\ c.settings[k][f] = own.settings[k][f]
                /\ DOMAIN c.settings \subseteq DOMAIN down \cup DOMAIN own.settings
                /\ DOMAIN c.extra = DOMAIN own.extra \cup DOMAIN Working.configuration.extra
                /\ \A x \in DOMAIN c.extra :
                    c.extra[x] = IF x \in DOMAIN own.extra THEN own.extra[x]
                                 ELSE Working.configuration.extra[x]
                /\ \A h \in {"failure_hook_source", "success_hook_source"} :
                    c[h] = IF own[h] # None THEN own[h]
                           ELSE Working.configuration[h]

\* a step compiled with a settings field and an extra of its own over the
\* pipeline's, a field and an extra inherited, one hook its own and one
\* inherited
C7_Witness ==
    /\ StepsDone
    /\ \E i \in DOMAIN steps :
        /\ KfKey \in DOMAIN steps[i].config.settings
        /\ steps[i].config.settings[KfKey] = [f |-> "s", g |-> "d"]
        /\ steps[i].config.extra = [x |-> "s", y |-> "r"]
        /\ steps[i].config.failure_hook_source = "step_hook"
        /\ steps[i].config.success_hook_source = "pipeline_hook"

(***************************************************************************)
(* C8: _apply_stack_default_settings leaves an entry under the key of      *)
(* every stack component that has a settings class: where the pipeline had *)
(* settings under the key, the fields it set keep its values and the other *)
(* fields take the stack default; where it had none, the entry is the      *)
(* stack default.  Keys of no stack component are left as they were.       *)
(***************************************************************************)
ComponentKeys ==
    {get_stack_component_setting_key(stack.components[i]) :
        i \in ComponentsWithSettings(stack)}

C8_StackDefaultsUnderPipeline ==
    [][pc = "apply_stack_default_settings" =>
        LET before == heap[pipeline].configuration.settings
            after  == heap'[pipeline].configuration.settings
        IN  /\ DOMAIN after = DOMAIN before \cup ComponentKeys
            /\ \A i \in ComponentsWithSettings(stack) :
                LET key == get_stack_component_setting_key(stack.components[i])
                    default == _get_default_settings(stack.components[i])
                IN  IF key \in DOMAIN before
                    THEN /\ DOMAIN after[key] =
                                DOMAIN before[key] \cup DOMAIN default
                         /\ \A f \in DOMAIN after[key] :
                                after[key][f] =
                                    IF f \in DOMAIN before[key]
                                    THEN before[key][f] ELSE default[f]
                    ELSE after[key] = default
            /\ \A k \in DOMAIN before \ ComponentKeys : after[k] = before[k]
    ]_vars

\* the defaults have been applied to a pipeline that had set one of the two
\* fields the stack has a default for
C8_Witness ==
    /\ pc = "verify_run_name"
    /\ stack.components[1].config = [f |-> "d", g |-> "d"]
    /\ run_configuration.settings = One(KfKey, [f |-> "r"])
    /\ KfKey \in DOMAIN Working.configuration.settings
    /\ Working.configuration.settings[KfKey] = [f |-> "r", g |-> "d"]

(***************************************************************************)
(* C9: a flag the run configuration sets to a value other than None has    *)
(* that value in every compiled step configuration, whatever the step      *)
(* authored and whatever the per-step override of the run configuration    *)
(* carries; a flag the run configuration leaves at None keeps in each step *)
(* the value the step had without this override.                           *)
(***************************************************************************)
\* the flag of step n as authored, or as the per-step override sets it
WithoutRunFlag(n, attr) ==
    IF n \in DOMAIN run_configuration.steps
        /\ attr \in DOMAIN run_configuration.steps[n]
    THEN run_configuration.steps[n][attr]
    ELSE given.step_configuration[n][attr]

C9_RunFlagsForced ==
    StepsDone =>
        \A i \in DOMAIN steps : \A attr \in FlagAttributes :
            steps[i].config[attr] =
                IF run_configuration[attr] # None
                THEN run_configuration[attr]
                ELSE WithoutRunFlag(steps[i].name, attr)

\* a step that authored True, with a per-step override of True, compiled to
\* the run configuration's False, next to a flag the run configuration left
C9_Witness ==
    /\ StepsDone
    /\ run_configuration.enable_cache = "False"
    /\ run_configuration.enable_artifact_metadata = None
    /\ given.step_configuration["A"].enable_cache = "True"
    /\ "A" \in DOMAIN run_configuration.steps
    /\ run_configuration.steps["A"].enable_cache = "True"
    /\ \A i \in DOMAIN steps : steps[i].config.enable_cache = "False"
    /\ \E i \in DOMAIN steps : steps[i].config.enable_artifact_metadata = "True"

UnknownSteps == DOMAIN run_configuration.steps \ available_steps(given)

\* the names of the run configuration that come before its first unknown one
BeforeUnknown ==
    LET names == KeysInOrder(run_configuration.steps)
        first == CHOOSE i \in DOMAIN names :
                    /\ names[i] \in UnknownSteps
                    /\ \A j \in 1..(i - 1) : names[j] \notin UnknownSteps
    IN  {names[j] : j \in 1..(first - 1)}

C11_UnknownStepRaises ==
    UnknownSteps # {} =>
        /\ (op = "compile" /\ pc # "apply_run_configuration") =>
            /\ pc = "raised"
            /\ outcome.status = "raised"
            /\ outcome.error = "KeyError"
            /\ Cardinality(outcome.detail) = 1
            /\ outcome.detail \subseteq UnknownSteps
            /\ heap["orig"] = given
            /\ \A n \in BeforeUnknown :
                Working.step_configuration[n] =
                    update_model(given.step_configuration[n],
                                 run_configuration.steps[n], DefaultMerge)
        /\ \A i \in DOMAIN history :
            history[i].op = "compile" =>
                /\ history[i].outcome.status = "raised"
                /\ history[i].outcome.error = "KeyError"

\* compile raised for the unknown step C after the override of A was applied
C11_Witness ==
    /\ op = "compile" /\ pc = "raised"
    /\ outcome.error = "KeyError" /\ outcome.detail = {"C"}
    /\ DOMAIN run_configuration.steps = {"A", "C"}
    /\ given.step_configuration["A"].enable_cache = None
    /\ Working.step_configuration["A"].enable_cache = "True"
    /\ heap["orig"].step_configuration["A"].enable_cache = None

(***************************************************************************)
(* Settings at a level their class does not support                        *)
(***************************************************************************)
\* the keys among the settings that resolve on the stack to a class that
\* does not support the level
WrongLevelKeys(settings, level) ==
    {k \in DOMAIN settings :
        /\ ResolvedClass(k, stack) # None
        /\ level \notin LEVEL(ResolvedClass(k, stack))}

\* the pipeline-level settings that are checked: authored, with the run
\* configuration and the stack defaults applied
PipelineLevelSettings ==
    _apply_stack_default_settings(Configured, stack).configuration.settings

WrongAtPipeline == WrongLevelKeys(PipelineLevelSettings, PIPELINE)

WrongAtStep ==
    {n \in available_steps(given) :
        WrongLevelKeys(Configured.step_configuration[n].settings, STEP) # {}}

ConfigurationShapeErrors == {"KeyError", "ValueError", "TypeError"}

RunNameRaises ==
    /\ run_configuration.run_name # <<>>
    /\ _verify_run_name(run_configuration.run_name) # None

\* no deployment holds settings at a level their class does not support
NoWrongLevelReturned ==
    (op = "compile" /\ pc = "returned") =>
        /\ WrongLevelKeys(outcome.deployment.pipeline_configuration.settings,
                          PIPELINE) = {}
        /\ \A i \in DOMAIN outcome.deployment.step_configurations :
            WrongLevelKeys(CompiledSettings(i), STEP) = {}

Unresolvable(settings) ==
    {k \in DOMAIN settings : ResolvedClass(k, stack) = None}

HasUnresolvable ==
    \/ Unresolvable(PipelineLevelSettings) # {}
    \/ \E n \in available_steps(given) :
            Unresolvable(Configured.step_configuration[n].settings) # {}

\* the step's configuration names a component of the kind that the stack
\* does not have under that name
Requires(config, kind) ==
    config[kind] # None /\ config[kind] \notin ComponentsOfType(stack, kind)

StepsRequiringMissing ==
    {n \in available_steps(given) :
        \/ Requires(Configured.step_configuration[n], "step_operator")
        \/ Requires(Configured.step_configuration[n], "experiment_tracker")}

\* a reason for compile to raise before the stack requirements are checked
EarlierDefect ==
    \/ UnknownSteps # {}
    \/ RunNameRaises
    \/ WrongAtPipeline # {}
    \/ WrongAtStep # {}
    \/ _get_sorted_invocations(given).error # None

(***************************************************************************)
(* C13: a settings entry whose key resolves to no component of the stack   *)
(* does not make compile fail; the key is absent from the pipeline         *)
(* configuration of the deployment and from every compiled step, and the   *)
(* other settings entries are kept as they were.                           *)
(***************************************************************************)
C13_UnresolvableKeyDropped ==
    (op = "compile" /\ Finished /\ HasUnresolvable) =>
        /\ (~EarlierDefect /\ StepsRequiringMissing = {}) => pc = "returned"
        /\ pc = "returned" =>
            LET merged == outcome.deployment.pipeline_configuration.settings
            IN  /\ DOMAIN merged = DOMAIN PipelineLevelSettings
                                    \ Unresolvable(PipelineLevelSettings)
                /\ \A k \in DOMAIN merged : merged[k] = PipelineLevelSettings[k]
                /\ \A i \in DOMAIN outcome.deployment.step_configurations :
                    LET own == Configured.step_configuration[CompiledName(i)].settings
                        kept == DOMAIN own \ Unresolvable(own)
                    IN  /\ Unresolvable(CompiledSettings(i)) = {}
                        /\ DOMAIN CompiledSettings(i) =
                            kept \cup DOMAIN settings_to_passdown(merged, stack)
                        /\ \A k \in kept : \A f \in DOMAIN own[k] :
                            /\ f \in DOMAIN CompiledSettings(i)[k]
                            /\ CompiledSettings(i)[k][f] = own[k][f]

\* compile returned for a pipeline with an entry for a component the stack
\* lacks next to an entry for one it has, at the pipeline and at a step
C13_Witness ==
    /\ op = "compile" /\ pc = "returned"
    /\ DOMAIN PipelineLevelSettings = {AirflowKey, KfKey}
    /\ DOMAIN outcome.deployment.pipeline_configuration.settings = {KfKey}
    /\ \E i \in DOMAIN outcome.deployment.step_configurations :
        /\ CompiledName(i) = "A"
        /\ KfKey \in DOMAIN given.step_configuration["A"].settings
        /\ DOMAIN CompiledSettings(i) = {KfKey}
        /\ CompiledSettings(i)[KfKey].f = "s"

(***************************************************************************)
(* C14: compile raises StackValidationError, naming the step and the       *)
(* missing component, exactly when some compiled step names a step         *)
(* operator or an experiment tracker that the stack does not have under    *)
(* that name; a step that names neither is never the one named.            *)
(***************************************************************************)
CompiledRequiring ==
    {i \in DOMAIN steps :
        \/ Requires(steps[i].config, "step_operator")
        \/ Requires(steps[i].config, "experiment_tracker")}

C14_MissingComponentRaises ==
    (op = "compile" /\ Finished) =>
        /\ (outcome.status = "raised"
                /\ outcome.error = "StackValidationError")
            <=> CompiledRequiring # {}
        /\ CompiledRequiring # {} =>
            \E i \in CompiledRequiring :
                /\ \A j \in CompiledRequiring : i <= j
                /\ outcome.detail[1] = steps[i].name
                /\ outcome.detail[2] \in {"step_operator", "experiment_tracker"}
                /\ Requires(steps[i].config, outcome.detail[2])
                /\ outcome.detail[2] = "experiment_tracker" =>
                        ~Requires(steps[i].config, "step_operator")

\* compile raised for a step whose operator the stack has and whose
\* experiment tracker it lacks
C14_Witness ==
    /\ op = "compile" /\ pc = "raised"
    /\ outcome = Raised("StackValidationError", <<"A", "experiment_tracker">>)
    /\ ComponentsOfType(stack, "step_operator") = {"sm"}
    /\ \E i \in DOMAIN steps :
        /\ steps[i].name = "A"
        /\ steps[i].config.step_operator = "sm"
        /\ steps[i].config.experiment_tracker = "mlf"

(***************************************************************************)
(* C15: the stack requirements are checked once every step is compiled,    *)
(* on the step configurations as the run configuration's overrides left    *)
(* them: an override that puts a name the stack has in place of one it     *)
(* lacks makes compile return, and an override that brings in a name the   *)
(* stack lacks makes it raise although the authored step was satisfiable.  *)
(***************************************************************************)
C15_RequirementsAfterOverrides ==
    (op = "compile" /\ Finished) =>
        /\ (outcome.status = "raised"
                /\ outcome.error = "StackValidationError") =>
            /\ ~EarlierDefect
            /\ [i \in DOMAIN steps |-> steps[i].name]
                    = _get_sorted_invocations(given).sorted
            /\ Len(steps) = Len(given.invocations)
        /\ ~EarlierDefect =>
            /\ StepsRequiringMissing # {} =>
                    outcome.status = "raised"
                        /\ outcome.error = "StackValidationError"
            /\ StepsRequiringMissing = {} => outcome.status = "returned"

\* compile returned for a step that authored an operator the stack lacks
\* and that the run configuration moved to the one the stack has
C15_Witness ==
    /\ op = "compile" /\ pc = "returned"
    /\ given.step_configuration["A"].step_operator = "vertex"
    /\ "A" \in DOMAIN run_configuration.steps
    /\ run_configuration.steps["A"] = [step_operator |-> "sm"]
    /\ ComponentsOfType(stack, "step_operator") = {"sm"}
    /\ \E i \in DOMAIN outcome.deployment.step_configurations :
        /\ CompiledName(i) = "A"
        /\ outcome.deployment.step_configurations[i].config.step_operator = "sm"

(***************************************************************************)
(* C16 as stated: a run name the run configuration supplies is accepted    *)
(* when each of its placeholders is date or time, also when it has none;   *)
(* with any other placeholder compile raises the error that names the run  *)
(* name and the allowed placeholders.                                      *)
(***************************************************************************)
RunNameError ==
    Raised("ValueError", <<run_configuration.run_name, valid_placeholder_names>>)

RunNameAccepted ==
    /\ ~(outcome.status = "raised" /\ outcome.error = "ValueError")
    /\ outcome.status = "returned" =>
        outcome.deployment.run_name_template = run_configuration.run_name

C16_Original ==
    (op = "compile" /\ Finished /\ run_configuration.run_name # <<>>) =>
        IF Placeholders(run_configuration.run_name) \subseteq {"date", "time"}
        THEN RunNameAccepted
        ELSE outcome = RunNameError

(***************************************************************************)
(* C16 amended: with a placeholder other than date and time compile fails, *)
(* with the error that names the run name and the allowed placeholders     *)
(* unless applying the run configuration has raised for an unknown step.   *)
(***************************************************************************)
C16_RunNameVerified ==
    (op = "compile" /\ Finished /\ run_configuration.run_name # <<>>) =>
        IF Placeholders(run_configuration.run_name) \subseteq {"date", "time"}
        THEN RunNameAccepted
        ELSE IF UnknownSteps = {} THEN outcome = RunNameError
        ELSE outcome.status = "raised" /\ outcome.error = "KeyError"

\* compile raised for a run name with date and another placeholder
C16_Witness ==
    /\ op = "compile" /\ pc = "raised"
    /\ Placeholders(run_configuration.run_name) = {"date", "epoch"}
    /\ outcome = RunNameError

(***************************************************************************)
(* C17: compile either raises and returns nothing, or returns a deployment *)
(* with exactly one step configuration, and a spec with exactly one step   *)
(* spec, for every invocation of the pipeline; it never returns after a    *)
(* validation has failed.                                                  *)
(***************************************************************************)
\* the outcome is a deployment and a spec that cover the invocations once
Complete(o) ==
    /\ DOMAIN o = {"status", "deployment", "spec"}
    /\ Len(o.deployment.step_configurations) = Len(given.invocations)
    /\ {o.deployment.step_configurations[i].name :
            i \in DOMAIN o.deployment.step_configurations}
        = Range(given.invocations)
    /\ Len(o.spec.steps) = Len(given.invocations)
    /\ {o.spec.steps[i].pipeline_parameter_name : i \in DOMAIN o.spec.steps}
        = Range(given.invocations)
    /\ \A i \in DOMAIN o.spec.steps :
        o.spec.steps[i] = o.deployment.step_configurations[i].spec

AllOrNothing(o) ==
    \/ o.status = "raised" /\ DOMAIN o = {"status", "error", "detail"}
    \/ /\ o.status = "returned"
       /\ Complete(o)
       /\ ~EarlierDefect
       /\ StepsRequiringMissing = {}

C17_AllOrNothing ==
    /\ (op = "compile" /\ Finished) => AllOrNothing(outcome)
    /\ (op = "compile" /\ ~Finished) => outcome = NoOutcome
    /\ \A i \in DOMAIN history :
        history[i].op = "compile" => AllOrNothing(history[i].outcome)

\* a second call, a compile of a pipeline of three steps, returned all three
C17_Witness ==
    /\ op = "compile" /\ pc = "returned"
    /\ Len(given.invocations) = 3
    /\ Len(outcome.deployment.step_configurations) = 3
    /\ Len(history) = 1 /\ history[1].outcome.status = "returned"

(***************************************************************************)
(* C18: two compiles of the same pipeline, stack and run configuration,    *)
(* whatever calls lie between them, end alike: both raise, or both return  *)
(* pipeline specs that are equal field for field, with the steps in the    *)
(* same order and equal step specs for each step.                          *)
(***************************************************************************)
\* the completed calls and the one that has finished but is not yet recorded
Calls ==
    IF Finished THEN Append(history, [op |-> op, outcome |-> outcome])
    ELSE history

SameResult(a, b) ==
    /\ a.status = b.status
    /\ a.status = "returned" =>
        /\ a.spec = b.spec
        /\ Len(a.spec.steps) = Len(b.spec.steps)
        /\ \A i \in DOMAIN a.spec.steps :
            /\ a.spec.steps[i].pipeline_parameter_name
                = b.spec.steps[i].pipeline_parameter_name
            /\ a.spec.steps[i] = b.spec.steps[i]
            /\ a.spec.steps[i].upstream_steps = b.spec.steps[i].upstream_steps

Alphabetical == {<<"A", "B">>, <<"A", "C">>, <<"B", "C">>}

Ascending(names) ==
    \A i, j \in DOMAIN names :
        i < j => <<names[i], names[j]>> \in Alphabetical

StepSpecFaithful(spec) ==
    LET n == spec.pipeline_parameter_name
    IN  /\ n \in available_steps(given)
        /\ Range(spec.upstream_steps) = given.upstream_steps[n]
        /\ Len(spec.upstream_steps) = Cardinality(given.upstream_steps[n])
        /\ Ascending(spec.upstream_steps)
        /\ DOMAIN spec.inputs = DOMAIN given.input_artifacts[n]
        /\ \A key \in DOMAIN spec.inputs :
            /\ DOMAIN spec.inputs[key] = {"step_name", "output_name"}
            /\ spec.inputs[key].step_name
                = given.input_artifacts[n][key].invocation_id
            /\ spec.inputs[key].output_name
                = given.input_artifacts[n][key].output_name
        /\ spec.source = given.step_source[n]

C19_StepSpec ==
    pc = "returned" =>
        /\ \A i \in DOMAIN outcome.spec.steps :
            StepSpecFaithful(outcome.spec.steps[i])
        /\ op = "compile" =>
            \A i \in DOMAIN outcome.deployment.step_configurations :
                /\ StepSpecFaithful(outcome.deployment.step_configurations[i].spec)
                /\ outcome.deployment.step_configurations[i].spec
                        .pipeline_parameter_name = CompiledName(i)
        /\ (given.invocations = <<"A", "B">>
                /\ given.upstream_steps = [n \in {"A", "B"} |->
                                            IF n = "B" THEN {"A"} ELSE {}]) =>
            /\ outcome.spec.steps[1].pipeline_parameter_name = "A"
            /\ outcome.spec.steps[1].upstream_steps = <<>>
            /\ outcome.spec.steps[2].pipeline_parameter_name = "B"
            /\ outcome.spec.steps[2].upstream_steps = <<"A">>

\* the spec of a step declared after its two upstream steps, C before B,
\* of which it consumes one output each
C19_Witness ==
    /\ op = "compile" /\ pc = "returned"
    /\ given.invocations = <<"C", "B", "A">>
    /\ \E i \in DOMAIN outcome.spec.steps :
        /\ outcome.spec.steps[i].pipeline_parameter_name = "A"
        /\ outcome.spec.steps[i].upstream_steps = <<"B", "C">>
        /\ outcome.spec.steps[i].inputs =
            [x |-> [step_name |-> "C", output_name |-> "out"],
             y |-> [step_name |-> "B", output_name |-> "out"]]

(***************************************************************************)
(* C20: the pipeline spec holds the step specs in order and, for a legacy  *)
(* class-based pipeline, the version tag "0.3" and neither source nor      *)
(* parameters of the pipeline; for any other pipeline the pipeline's       *)
(* source, its parameters and the default version.  Stack and run          *)
(* configuration have no part in it.                                       *)
(***************************************************************************)
C20_PipelineSpecShape ==
    pc = "returned" =>
        /\ outcome.spec.steps =
            StepSpecs(given, _get_sorted_invocations(given).sorted)
        /\ IF given.is_base_pipeline
           THEN /\ outcome.spec.version = "0.3"
                /\ outcome.spec.source = None
                /\ outcome.spec.parameters = EmptyMap
           ELSE /\ outcome.spec.version = "default"
                /\ outcome.spec.source = given.source
                /\ outcome.spec.parameters = given.parameters

\* compile returned the spec of a legacy pipeline that has parameters, on a
\* stack with default settings and with a run configuration that sets a flag
C20_Witness ==
    /\ op = "compile" /\ pc = "returned"
    /\ given.is_base_pipeline
    /\ given.parameters # EmptyMap
    /\ ComponentsWithSettings(stack) # {}
    /\ run_configuration.enable_cache = "False"
    /\ outcome.spec.version = "0.3"
    /\ outcome.spec.parameters = EmptyMap
    /\ Len(outcome.spec.steps) = 3

(***************************************************************************)
(* C21: when two calls that share the pipeline and the stack run           *)
(* interleaved, with the same or with different run configurations, each   *)
(* returns the result, or raises the error, that it produces when it runs  *)
(* alone.                                                                  *)
(***************************************************************************)
C21_NoInterference ==
    /\ (op # "none" /\ Finished) =>
        outcome = Alone(op, given, stack, run_configuration)
    /\ \A i \in DOMAIN history :
        history[i].outcome =
            Alone(history[i].op, given, stack, run_configuration)
    /\ other.pc \in {"returned", "raised"} =>
        other.outcome = Alone(other.op, given, stack, other.run_configuration)

\* both calls are compiles in mid-flight with different run configurations,
\* each has changed its working copy, and the first to end has returned
C21_Witness ==
    /\ op = "compile" /\ pc = "steps"
    /\ other.op = "compile" /\ other.pc = "returned"
    /\ other.run_configuration # run_configuration
    /\ {"copy", "copy2"} \subseteq DOMAIN heap
    /\ heap["copy"] # heap["orig"]
    /\ heap["copy2"] # heap["orig"]
    /\ heap["copy"] # heap["copy2"]

GraphErrors == {"RuntimeError"}

InfrastructureErrors == {"StackValidationError"}

Category(error) ==
    CASE error \in GraphErrors              -> "graph"
      [] error \in ConfigurationShapeErrors -> "configuration"
      [] error \in InfrastructureErrors     -> "infrastructure"
      [] OTHER                              -> "generic"

C23_TypedErrors ==
    /\ GraphErrors \cap ConfigurationShapeErrors = {}
    /\ GraphErrors \cap InfrastructureErrors = {}
    /\ ConfigurationShapeErrors \cap InfrastructureErrors = {}
    /\ (op = "compile" /\ pc = "raised") =>
        /\ Category(outcome.error) # "generic"
        /\ Category(outcome.error) = "graph" =>
                _get_sorted_invocations(given).error # None
        /\ Category(outcome.error) = "configuration" =>
                \/ UnknownSteps # {}
                \/ RunNameRaises
                \/ WrongAtPipeline # {}
                \/ WrongAtStep # {}
        /\ Category(outcome.error) = "infrastructure" =>
                StepsRequiringMissing # {}

\* compile has raised the graph error for a pipeline and a stack that also
\* have a missing stack component
C23_Witness ==
    /\ op = "compile" /\ pc = "raised"
    /\ Category(outcome.error) = "graph"
    /\ UnknownSteps = {}
    /\ StepsRequiringMissing # {}

(***************************************************************************)
(* C24: compile_spec looks at neither the stack nor the settings: it       *)
(* returns a pipeline spec for every pipeline whose graph is valid and     *)
(* acyclic, whatever settings at an unsupported level, settings keys that  *)
(* resolve to no component, required step operators or experiment trackers *)
(* and run configuration there are, and it raises only the graph errors.   *)
(***************************************************************************)
C24_CompileSpecOnlyGraphErrors ==
    (op = "compile_spec" /\ Finished) =>
        /\ outcome.status = "returned" <=>
                _get_sorted_invocations(given).error = None
        /\ outcome.status = "raised" =>
                /\ outcome.error = "RuntimeError"
                /\ outcome.detail[1] \in {"invalid upstream steps", "cycle"}
        /\ outcome.status = "returned" =>
                outcome.spec =
                    _compute_pipeline_spec(given,
                        StepSpecs(given, _get_sorted_invocations(given).sorted))

\* compile_spec has returned a spec for a pipeline on which compile would fail
\* for its settings or its stack requirements
C24_Witness ==
    /\ op = "compile_spec" /\ pc = "returned"
    /\ Alone("compile", given, stack, run_configuration).status = "raised"
    /\ \/ WrongAtPipeline # {} \/ WrongAtStep # {}
       \/ StepsRequiringMissing # {}

(***************************************************************************)
(* GCPServiceConnector.get_session and its session cache                   *)
(***************************************************************************)
MaxTime == 3

MaxLifetime == 2

MaxAuthentications == 3

compilation ==
    <<heap, given, stack, run_configuration, op, pc, pipeline,
      pipeline_settings, layers, sorted_invocations, steps, outcome, history,
      other>>

RECURSIVE SumOver(_, _)
SumOver(f, S) ==
    IF S = {} THEN 0
    ELSE LET x == CHOOSE y \in S : TRUE IN f[x] + SumOver(f, S \ {x})

UsableUntilExpiry(entry, t) ==
    entry.expires_at = NoExpiry \/ \A e \in entry.expires_at : e >= t

\* `if expires_at is None: return ...` and `if expires_at > now: return ...`
\* (expires_at.replace(tzinfo=utc) names the instant the entry was stored
\* with: _authenticate stores UTC times)
Usable(entry, t) ==
    entry.expires_at = NoExpiry \/ \A e \in entry.expires_at : e > t

\* self._authenticate(auth_method, resource_type, resource_id): what it can
\* return or raise at time t; the credentials are those of the connector's
\* own configuration
_authenticate(self, key, t) ==
    {[status |-> "raised", error |-> "AuthorizationException"]}
    \cup {[status |-> "returned",
           session |-> [by |-> self, key |-> key,
                        number |-> authenticated[self] + 1],
           expires_at |-> e]
          : e \in {NoExpiry} \cup {ExpiresAt(t + d) : d \in 1..MaxLifetime}}

GetSession(self, key) ==
    LET cache == session_cache[CacheHolder(self)]
        call == [seq |-> 1 - result.seq, connector |-> self, key |-> key]
    IN  /\ IF key \in DOMAIN cache /\ Usable(cache[key], now)
           THEN /\ result' = [seq |-> call.seq, connector |-> self,
                              key |-> key, status |-> "returned",
                              path |-> "cached",
                              session |-> cache[key].session,
                              expires_at |-> cache[key].expires_at]
                /\ UNCHANGED <<session_cache, authenticated>>
           ELSE /\ SumOver(authenticated, Connectors) < MaxAuthentications
                /\ authenticated' = [authenticated EXCEPT ![self] = @ + 1]
                /\ \E r \in _authenticate(self, key, now) :
                    IF r.status = "raised"
                    THEN /\ result' = [seq |-> call.seq, connector |-> self,
                                       key |-> key, status |-> "raised",
                                       path |-> IF key \in DOMAIN cache
                                                THEN "refreshed"
                                                ELSE "created",
                                       error |-> r.error]
                         /\ UNCHANGED session_cache
                    ELSE /\ session_cache' =
                            [session_cache EXCEPT ![CacheHolder(self)] =
                                Update(@, One(key,
                                    [session |-> r.session,
                                     expires_at |-> r.expires_at]))]
                         /\ result' = [seq |-> call.seq, connector |-> self,
                                       key |-> key, status |-> "returned",
                                       path |-> IF key \in DOMAIN cache
                                                THEN "refreshed"
                                                ELSE "created",
                                       session |-> r.session,
                                       expires_at |-> r.expires_at]
        /\ UNCHANGED <<now, compilation, secret_store>>

\* time passes
Tick ==
    /\ now < MaxTime
    /\ now' = now + 1
    /\ UNCHANGED <<session_cache, authenticated, result, compilation,
                   secret_store>>

IdleCompiler ==
    /\ other = NoOtherCall
    /\ CallerHolds([pipeline |-> ChainPipeline(DefaultPipelineConfiguration,
                                               DefaultStepConfiguration),
                    stack |-> DefaultStack,
                    run_configuration |-> DefaultRunConfiguration])

InitGCP == IdleCompiler /\ NoSessions /\ NoSecrets

NextGCP ==
    \/ \E self \in Connectors, key \in SessionKeys : GetSession(self, key)
    \/ Tick

SpecGCP == InitGCP /\ [][NextGCP]_vars

(***************************************************************************)
(* C25: get_session never returns a cached session whose expiry is at or   *)
(* before the current time: it then calls _authenticate, and when that     *)
(* returns, the cache entry of the key is the new session, which is what   *)
(* the call returns.  A cached session whose expiry is in the future, or   *)
(* that has no expiry, is returned without a call of _authenticate.        *)
(***************************************************************************)
C25_ExpiryAware ==
    [][result'.seq # result.seq =>
        LET self == result'.connector
            key == result'.key
            before == session_cache[CacheHolder(self)]
            after == session_cache'[CacheHolder(self)]
        IN  /\ (/\ key \in DOMAIN before
                /\ \E e \in before[key].expires_at : e <= now) =>
                    /\ authenticated'[self] = authenticated[self] + 1
                    /\ result'.status = "returned" =>
                        /\ result'.session # before[key].session
                        /\ result'.session.number = authenticated'[self]
                        /\ after = Update(before, One(key,
                                [session |-> result'.session,
                                 expires_at |-> result'.expires_at]))
                    /\ result'.status = "raised" =>
                        session_cache' = session_cache
            /\ (/\ key \in DOMAIN before
                /\ \A e \in before[key].expires_at : e > now) =>
                    /\ result'.status = "returned"
                    /\ result'.session = before[key].session
                    /\ result'.expires_at = before[key].expires_at
                    /\ authenticated' = authenticated
                    /\ session_cache' = session_cache
    ]_vars

\* time has passed, get_session found the entry of the key expired and
\* returned the session of a second _authenticate call, which expires in turn
C25_Witness ==
    /\ result.status = "returned" /\ result.path = "refreshed"
    /\ result.session.number = 2
    /\ now > 0
    /\ result.expires_at # NoExpiry

SecretValues ==
    {One("test_value", "aria"),
     Update(One("test_value", "aria"), One("test_value2", "axl"))}

\* click's Result of a command: exit_code, and the phrases its output has;
\* `before` is the command that ran just before it
Invoked(command, name, exit_code, output) ==
    [seq |-> 1 - cli.seq, command |-> command, name |-> name,
     exit_code |-> exit_code, output |-> output,
     before |-> <<cli.command, cli.name, cli.exit_code>>]

DeleteIgnoringMissing(name) ==
    /\ secrets' = Restrict(secrets, DOMAIN secrets \ {name})
    /\ cli' = Invoked("delete", name, 0, {"deleted"})
    /\ UNCHANGED <<compilation, connectors>>

\* runner.invoke(secret_create_command, [secret_name, "--test_value=aria"])
SecretCreate(name, values) ==
    /\ IF name \in DOMAIN secrets
       THEN /\ cli' = Invoked("create", name, 1, {"already exists"})
            /\ UNCHANGED secrets
       ELSE /\ cli' = Invoked("create", name, 0, {"created"})
            /\ secrets' = Update(secrets, One(name, values))
    /\ UNCHANGED <<compilation, connectors>>

\* runner.invoke(secret_delete_command, [secret_name, "-y"])
SecretDelete(name) ==
    /\ IF name \in DOMAIN secrets
       THEN /\ cli' = Invoked("delete", name, 0, {"deleted"})
            /\ secrets' = Restrict(secrets, DOMAIN secrets \ {name})
       ELSE /\ cli' = Invoked("delete", name, 1, {"not exist"})
            /\ UNCHANGED secrets
    /\ UNCHANGED <<compilation, connectors>>

InitSecrets == IdleCompiler /\ NoSessions /\ NoSecrets

NextSecrets ==
    \/ \E name \in SecretNames, values \in SecretValues :
            SecretCreate(name, values)
    \/ \E name \in SecretNames : SecretDelete(name)

SpecSecrets == InitSecrets /\ [][NextSecrets]_vars

C27_SameSpec ==
    /\ (op = "compile" /\ pc = "returned") =>
        outcome.spec =
            _compute_pipeline_spec(given,
                StepSpecs(given, _get_sorted_invocations(given).sorted))
    /\ \A i \in DOMAIN history :
        (/\ history[i].op = "compile_spec"
         /\ history[i].outcome.status = "returned"
         /\ op = "compile" /\ pc = "returned") =>
            history[i].outcome.spec = outcome.spec

\* compile has returned after compile_spec did, for a run configuration and a
\* stack that changed the configuration of the working copy
C27_Witness ==
    /\ op = "compile" /\ pc = "returned"
    /\ \E i \in DOMAIN history :
        /\ history[i].op = "compile_spec"
        /\ history[i].outcome.status = "returned"
    /\ run_configuration.extra # EmptyMap
    /\ outcome.deployment.pipeline_configuration # given.configuration
    /\ \E i \in DOMAIN outcome.deployment.step_configurations :
        outcome.deployment.step_configurations[i].config
            # given.step_configuration[CompiledName(i)]

(***************************************************************************)
(* C28: when the arguments of compile have several defects, compile        *)
(* reports the one of the earliest phase, the phases being, in order: an   *)
(* unknown step in the run configuration, an invalid run-name placeholder, *)
(* pipeline settings at an unsupported level, an unknown upstream step, a  *)
(* cycle, step settings at an unsupported level, a required stack          *)
(* component that is missing.  No step is compiled before the graph is     *)
(* validated and sorted, and the stack requirements are looked at only     *)
(* when every step is compiled.                                            *)
(***************************************************************************)
FirstDefect ==
    IF UnknownSteps # {} THEN <<"KeyError">>
    ELSE IF RunNameRaises THEN <<"ValueError">>
    ELSE IF WrongAtPipeline # {} THEN <<"TypeError", "pipeline">>
    ELSE IF UnknownUpstream(given)
    THEN <<"RuntimeError", "invalid upstream steps">>
    ELSE IF HasCycle(given) THEN <<"RuntimeError", "cycle">>
    ELSE IF WrongAtStep # {} THEN <<"TypeError", "step">>
    ELSE IF StepsRequiringMissing # {} THEN <<"StackValidationError">>
    ELSE <<>>

Reported(o) ==
    IF o.status = "returned" THEN <<>>
    ELSE CASE o.error = "TypeError" ->
                <<"TypeError", IF o.detail = {} THEN "step" ELSE "pipeline">>
           [] o.error = "RuntimeError" -> <<"RuntimeError", o.detail[1]>>
           [] OTHER -> <<o.error>>

C28_EarliestPhaseFirst ==
    (op = "compile" /\ Finished) =>
        /\ Reported(outcome) = FirstDefect
        /\ (outcome.status = "raised" /\ outcome.error # "StackValidationError")
                => steps = <<>>
        /\ (outcome.status = "raised" /\ outcome.error = "StackValidationError")
                => Len(steps) = Len(given.invocations)

\* compile has raised the TypeError of a step's settings although a step that
\* comes earlier in the order requires a step operator the stack lacks
C28_Witness ==
    /\ op = "compile" /\ pc = "raised"
    /\ Reported(outcome) = <<"TypeError", "step">>
    /\ "A" \in StepsRequiringMissing
    /\ WrongAtStep = {"B"}

(***************************************************************************)
(* C29: _filter_and_validate_settings decides whether a key resolves       *)
(* before it looks at the level: an entry whose key resolves to nothing in *)
(* the stack is dropped without an error, also when the class of the entry *)
(* does not support the level; TypeError is raised exactly when an entry   *)
(* whose key resolves does not support the level; otherwise every entry    *)
(* whose key resolves is returned under its own key.                       *)
(***************************************************************************)
FilterCases ==
    {<<PipelineLevelSettings, PIPELINE>>}
    \cup {<<Configured.step_configuration[n].settings, STEP>> :
            n \in available_steps(given)}

C29_ResolutionBeforeLevel ==
    /\ \A c \in FilterCases :
        LET r == _filter_and_validate_settings(c[1], c[2], stack)
            resolvable == {k \in DOMAIN c[1] : ResolvedClass(k, stack) # None}
            wrong == {k \in resolvable :
                        c[2] \notin LEVEL(ResolvedClass(k, stack))}
        IN  /\ r.error = "TypeError" <=> wrong # {}
            /\ r.error \in {None, "TypeError"}
            /\ r.error = "TypeError" => r.keys = wrong
            /\ r.error = None =>
                /\ DOMAIN r.settings = resolvable
                /\ \A k \in resolvable : r.settings[k] = c[1][k]
    /\ (op = "compile" /\ pc = "sort") =>
        pipeline_settings =
            Restrict(PipelineLevelSettings,
                {k \in DOMAIN PipelineLevelSettings :
                    ResolvedClass(k, stack) # None})

\* the pipeline-level settings have passed the filter: an entry whose key does
\* not resolve and whose class is for steps only was dropped, and the entry
\* of the stack's orchestrator was kept
C29_Witness ==
    /\ op = "compile" /\ pc = "sort"
    /\ AirflowKey \in DOMAIN PipelineLevelSettings
    /\ ResolvedClass(AirflowKey, stack) = None
    /\ PIPELINE \notin LEVEL(InstanceClass(AirflowKey, stack))
    /\ DOMAIN pipeline_settings = {KfKey}

====
